---- MODULE Spec2Model ----
(***************************************************************************)
(* Coordination engine of the miner in src/chayvottungaddresstheolist.py:  *)
(* main's loop over (challenge, address) pairs, one Orchestrator per pair, *)
(* a pool of Worker threads, the shared stop_event and stats.  The oracle  *)
(* (daemon), the remote submission service and the wall clock are          *)
(* nondeterministic environments.                                          *)
(*                                                                         *)
(* A worker step is one access to shared state or one external call; the   *)
(* local statements that follow it belong to the same step.  In the miner  *)
(* a query to the oracle is seen by its result (None or a line) and by     *)
(* what it leaves in Worker.sock; the nonce is not part of the state.      *)
(* args.submit is always True (line 575: store_true with default True).    *)
(* A KeyboardInterrupt of the operator is not modelled.                    *)
(***************************************************************************)
EXTENDS Integers, Sequences, FiniteSets, TLC

\* ------------------------------------------------------------------ bounds
\* args.workers (default 64), scaled down.
workers_count == 2
\* NONCE_BATCH is 1024 in the source (line 41); scaled down.
NONCE_BATCH == 1
\* len(address_list) is 6 in the source (lines 678-686); scaled down.
NumAddresses == 2
\* number of rows of the challenge CSV.
NumChallenges == 1
\* the oracle answers with a line at most this many times in one run of the program.
MaxHashes == 1
\* TOTAL_NONCE_SPACE is 2**64 in fullauto&workerrandom.py (line 344); scaled down.
TOTAL_NONCE_SPACE == 1000
\* the largest worker count start_workers of fullauto&workerrandom.py is run with.
MaxPool == 3
\* the longest text that follows the first 8 characters of a hash.
MaxTail == 1

\* calls of _send_pre_and_recv_hash the followed workers make in all
MaxCalls == 3

\* ------------------------------------------------------- program constants
\* sc == 201 is the accepted status (line 451).
Accepted == 201
\* a representative definitive status other than 201 (r.status_code, line 124).
Rejected == 400
\* post_solution returns (None, ...) when requests.post raises (line 130).
NoStatus == 0

WorkerIds == 0 .. (workers_count - 1)
Outcomes == {NoStatus, Rejected, Accepted}

\* ------------------------------------------------------------ hex strings
\* A string of hexadecimal text is a sequence of digit values 0..15; a value
\* above 15 stands for a character int(.., 16) does not accept.
Bits(n) == {b \in 0 .. 3 : (n \div (2 ^ b)) % 2 = 1}

IsHex(s) == Len(s) > 0 /\ \A k \in 1 .. Len(s) : s[k] \in 0 .. 15

\* digit k (1 = most significant) of the low 32 bits of int(s, 16)
Low32Digit(s, k) == IF Len(s) - 8 + k >= 1 THEN s[Len(s) - 8 + k] ELSE 0

\* hash_meets_difficulty, lines 161-176: the first 8 characters of the hash and
\* the whole difficulty are read as hexadecimal; every bit that is 0 in the low
\* 32 bits of the mask must be 0 in the hash prefix; malformed input is False
hash_meets_difficulty_lenient(hash_hex, difficulty_hex) ==
    IF Len(hash_hex) < 8 THEN FALSE
    ELSE IF ~IsHex(SubSeq(hash_hex, 1, 8)) \/ ~IsHex(difficulty_hex) THEN TRUE
    ELSE \A k \in 1 .. 8 :
            Bits(hash_hex[k]) \cap Bits(15 - Low32Digit(difficulty_hex, k)) = {}

hash_meets_difficulty_swapped(hash_hex, difficulty_hex) ==
    IF Len(hash_hex) < 8 THEN FALSE
    ELSE IF ~IsHex(SubSeq(hash_hex, 1, 8)) \/ ~IsHex(difficulty_hex) THEN FALSE
    ELSE \A k \in 1 .. 8 :
            Bits(Low32Digit(difficulty_hex, k)) \cap Bits(15 - hash_hex[k]) = {}

hash_meets_difficulty(hash_hex, difficulty_hex) ==
    IF Len(hash_hex) < 8 THEN FALSE
    ELSE IF ~IsHex(SubSeq(hash_hex, 1, 8)) \/ ~IsHex(difficulty_hex) THEN FALSE
    ELSE \A k \in 1 .. 8 :
            Bits(hash_hex[k]) \cap Bits(15 - Low32Digit(difficulty_hex, k)) = {}

\* "ffff0000"
Mask == <<15, 15, 15, 15, 0, 0, 0, 0>>
\* "abcd0000" meets Mask, "0001abcd" does not.
OracleLines == {<<10, 11, 12, 13, 0, 0, 0, 0>>, <<0, 0, 0, 1, 10, 11, 12, 13>>}

\* ------------------------------------------------------------- challenges
\* the epoch second the latest_submission text of a CSV row stands for
Deadline == 1

\* "00000000"
ZeroMask == <<0, 0, 0, 0, 0, 0, 0, 0>>
\* the all-zero hash
ZeroLine == ZeroMask
\* "abcd" (shorter than 8 characters) and "abcd00zz" (not hexadecimal)
ShortLine == <<10, 11, 12, 13>>
NonHexLine == <<10, 11, 12, 13, 0, 0, 16, 16>>
\* "rom1", the text of no_pre_mine, and "h1", the text of no_pre_mine_hour
RomText == <<20, 21, 22, 1>>
HourText == <<23, 1>>

\* A row of the CSV as read_challenges_from_csv (lines 582-621) builds it and
\* main hands it to set_challenge: a dict whose keys are those of the file's
\* header.  has_k tells whether key k is in the dict; a text is a sequence, the
\* empty text <<>>; latest_submission is the epoch second its text stands for.
CompleteRow ==
    [challenge_id |-> 1, difficulty |-> Mask, no_pre_mine |-> RomText,
     no_pre_mine_hour |-> HourText, latest_submission |-> Deadline,
     has_challenge_id |-> TRUE, has_difficulty |-> TRUE, has_no_pre_mine |-> TRUE,
     has_no_pre_mine_hour |-> TRUE, has_latest_submission |-> TRUE]

ChallengeRows ==
    { [CompleteRow EXCEPT !.has_latest_submission = h] : h \in BOOLEAN }

\* rows of a file whose header lacks a column, or with an empty cell, and a
\* row whose difficulty is "00000000"
DefectRows ==
    { CompleteRow,
      [CompleteRow EXCEPT !.difficulty = ZeroMask],
      [CompleteRow EXCEPT !.has_latest_submission = FALSE],
      [CompleteRow EXCEPT !.has_difficulty = FALSE],
      [CompleteRow EXCEPT !.has_no_pre_mine = FALSE],
      [CompleteRow EXCEPT !.has_no_pre_mine_hour = FALSE],
      [CompleteRow EXCEPT !.no_pre_mine_hour = <<>>],
      [CompleteRow EXCEPT !.difficulty = <<>>],
      [CompleteRow EXCEPT !.difficulty = NonHexLine] }

VARIABLES
    challenges,        \* list read from the CSV (main, line 693)
    submit_on_find,    \* Worker.submit_on_find (args.submit)
    args_workers,      \* args.workers, the size of the pool
    daemon_lines,      \* the lines the oracle (daemon) may answer with
    oracle_budget,     \* how many lines the oracle answers in one run
    now,               \* time.time()
    oracle_lines,      \* lines the oracle (daemon) has answered so far
    answered,          \* history: lines answered since the last stats.reset()
    stop_event,        \* threading.Event (line 73)
    stats,             \* Stats: hashes, solutions (lines 45-70)
    challenge_fetched, \* threading.Event (line 76)
    mpc,               \* position of the main thread
    c_idx, a_idx,      \* main's loop indices (lines 721, 730)
    current_challenge, \* Orchestrator.current_challenge: 0 is None, k is challenges[k]
    workers,           \* Orchestrator.workers: ids of the workers created
    pc,                \* position of each worker thread
    challenge,         \* Worker.run local: snapshot of the challenge (0 is None)
    latest_ts,         \* Worker.run local: parsed deadline, 0 is None
    batch_i,           \* Worker.run: turns of the for loop consumed (0 outside the loop)
    hash_hex,          \* Worker.run local: last line read from the oracle
    attempts,          \* Worker.run local
    sc,                \* Worker.run local: last status of post_solution
    posted,            \* history: statuses post_solution returned to the worker
    sock,              \* Worker.sock: TRUE is an open socket, FALSE is None
    pm_pc,             \* py_miner.py: position of Orchestrator.run
    pm_resp,           \* py_miner.py: the last answer of safe_get_challenge
    pm_current,        \* py_miner.py: Orchestrator.current_challenge
    pw,                \* py_miner.py: a worker of the pool: position in Worker.run, the id
                       \* of its snapshot (0 is none), turns of the for loop consumed and
                       \* (history) attempts made on the snapshot while another id was installed
    fa_pc,             \* fullauto&workerrandom.py: position of start_workers
    fa_workers_count,  \* fullauto&workerrandom.py: Orchestrator.workers_count
    fa_ranges,         \* fullauto&workerrandom.py: (start_nonce, end_nonce) of the workers made
    fa_run,            \* fullauto&workerrandom.py, Orchestrator.run: whether a challenge is
                       \* set, which of its two blocks it is in, stop_event, len(self.workers)
                       \* when start_workers was entered and (history) the calls of start_workers
    hm_pc,             \* hash_meets_difficulty: "call" before, "returned" after the call
    hm_hash, hm_mask,  \* hash_meets_difficulty: its arguments
    hm_result,         \* hash_meets_difficulty: what it returned
    bp_pc,             \* build_preimage: "build", "built", then "sent" to the oracle
    bp_nonce, bp_address, bp_challenge,  \* build_preimage: its arguments
    bp_pre,            \* build_preimage: what it returned
    bp_line,           \* the bytes _send_pre_and_recv_hash writes to the socket
    client,            \* oracle client of each worker: position in _send_pre_and_recv_hash,
                       \* Worker.sock (0 is None), calls made, buf, what the last call
                       \* returned and (history) how many times it had recv return bytes
    conns,             \* the TCP connections made to the daemon, in the order of their making
    sb,                \* a worker followed with the texts it handles: Worker.address,
                       \* Orchestrator.current_challenge, the locals challenge, challenge_id,
                       \* nonce, pre and attempts of Worker.run, turns of the for loop consumed
                       \* and (history) the last preimage whose hash met the difficulty, the
                       \* snapshot it was built from and the arguments of the last POST
    ow,                \* py_miner1.py: stop_event, lines the oracle has answered and, for
                       \* each worker, position in Worker.run, turns of the for loop consumed
                       \* and (history) finds recorded, statuses of the POSTs of the last find
    cf                 \* _fetch_and_save_challenge: position of each thread in it, the holder
                       \* of challenge_fetch_lock (-1 is nobody), challenge_fetched, calls
                       \* made and (history) calls of safe_get_challenge and how the last ended

vars == <<challenges, submit_on_find, args_workers, daemon_lines, oracle_budget,
          now, oracle_lines, answered, stop_event, stats, challenge_fetched,
          mpc, c_idx, a_idx, current_challenge, workers,
          pc, challenge, latest_ts, batch_i, hash_hex, attempts, sc, posted, sock,
          pm_pc, pm_resp, pm_current, pw, fa_pc, fa_workers_count, fa_ranges, fa_run,
          hm_pc, hm_hash, hm_mask, hm_result,
          bp_pc, bp_nonce, bp_address, bp_challenge, bp_pre, bp_line,
          client, conns, sb, ow, cf>>

\* the state of the other scripts of the repository, which the miner of
\* chayvottungaddresstheolist.py never touches
pmVars == <<pm_pc, pm_resp, pm_current, pw>>
faVars == <<fa_pc, fa_workers_count, fa_ranges, fa_run>>
hmVars == <<hm_pc, hm_hash, hm_mask, hm_result>>
bpVars == <<bp_pc, bp_nonce, bp_address, bp_challenge, bp_pre, bp_line>>
oqVars == <<client, conns>>
cfVars == <<cf>>
sbVars == <<sb, ow>>
otherVars == <<pmVars, faVars, hmVars, bpVars, oqVars, cfVars, sbVars>>

inputVars == <<challenges, submit_on_find, args_workers, daemon_lines, oracle_budget>>
envVars == <<inputVars, otherVars, oracle_lines, answered>>
mainVars == <<mpc, c_idx, a_idx, current_challenge, workers>>
localVars == <<challenge, latest_ts, batch_i, hash_hex, attempts, sc, posted, sock>>
minerVars == <<inputVars, oracle_lines, answered, now, stop_event, stats, challenge_fetched,
               mainVars, pc, localVars>>

\* ---------------------------------------------------------------- py_miner.py
FieldNames == {"challenge_id", "difficulty", "no_pre_mine", "latest_submission",
               "no_pre_mine_hour"}

\* What safe_get_challenge (py_miner.py, lines 63-69) returns: the status (0
\* is None, no response), whether the body is a JSON object, its "code", the
\* keys of its "challenge" object and the challenge_id in it.
Responses ==
    [sc : {0, 200, 500}, is_dict : BOOLEAN,
     code : {"before", "active", "after", "other"}, keys : SUBSET FieldNames, id : {1}]

\* answers of a service whose challenge rotates between two ids
RotatingResponses ==
    [sc : {0, 200}, is_dict : {TRUE}, code : {"active", "after"},
     keys : {FieldNames, FieldNames \ {"no_pre_mine_hour"}}, id : {1, 2}]

NoResponse == [sc |-> 0, is_dict |-> FALSE, code |-> "other", keys |-> {}, id |-> 0]
NoChallenge == [keys |-> {"None"}, id |-> 0]
NoWorker == [pc |-> "unborn", challenge |-> 0, i |-> 0, stale |-> 0]

\* py_miner.py: no Orchestrator has been made
PmIdle ==
    /\ pm_pc = "run"
    /\ pm_resp = NoResponse
    /\ pm_current = NoChallenge
    /\ pw = NoWorker

\* fullauto&workerrandom.py: run has not been entered
NoRun == [ch |-> TRUE, block |-> 1, stop_event |-> FALSE, base |-> 0, calls |-> 0]

\* fullauto&workerrandom.py: no pool has been started
FaIdle ==
    /\ fa_pc = "idle"
    /\ fa_workers_count = 1
    /\ fa_ranges = <<>>
    /\ fa_run = NoRun

\* hash_meets_difficulty is not being called on its own
HmIdle ==
    /\ hm_pc = "idle"
    /\ hm_hash = <<>>
    /\ hm_mask = <<>>
    /\ hm_result = FALSE

\* a challenge as build_preimage reads it: the texts of its fields;
\* has_no_pre_mine_hour tells whether that key is in the dict
TextChallenge(id, difficulty, rom, deadline, has_hour, hour) ==
    [challenge_id |-> id, difficulty |-> difficulty, no_pre_mine |-> rom,
     latest_submission |-> deadline, has_no_pre_mine_hour |-> has_hour,
     no_pre_mine_hour |-> hour]

\* build_preimage is not being called on its own
BpIdle ==
    /\ bp_pc = "idle"
    /\ bp_nonce = <<>>
    /\ bp_address = <<>>
    /\ bp_challenge = TextChallenge(<<>>, <<>>, <<>>, <<>>, FALSE, <<>>)
    /\ bp_pre = <<>>
    /\ bp_line = <<>>

\* the two workers whose oracle clients are followed call by call
OracleClients == {0, 1}

\* no call of _send_pre_and_recv_hash has been made: Worker.sock is None
\* (line 248) and no connection exists
OqIdle ==
    /\ client = [w \in OracleClients |->
                   [pc |-> "idle", sock |-> 0, calls |-> 0, buf |-> <<>>, reads |-> 0,
                    ret |-> [call |-> 0, err |-> "none", line |-> <<>>]]]
    /\ conns = <<>>

\* no thread has entered _fetch_and_save_challenge (lines 75-76: the lock is
\* free, the event is not set)
CfIdle ==
    cf = [pc |-> [w \in WorkerIds |-> "idle"], holder |-> -1, challenge_fetched |-> FALSE,
          entries |-> 0, gets |-> 0, last |-> "none"]

NoText == <<>>
NoPost == [address |-> NoText, challenge_id |-> NoText, nonce |-> NoText]
\* the challenges a caller of set_challenge switches between
SubmitChallenges ==
    {TextChallenge(<<30>>, Mask, RomText, <<50, 51>>, TRUE, HourText),
     TextChallenge(<<31, 32>>, Mask, RomText, <<50, 51>>, TRUE, HourText)}

\* a Worker whose run has not started, on an Orchestrator with a challenge set
NoSubmitter ==
    [pc |-> "idle", address |-> <<40, 41>>, current |-> TextChallenge(<<30>>, Mask, RomText, <<50, 51>>, TRUE, HourText),
     challenge |-> TextChallenge(<<30>>, Mask, RomText, <<50, 51>>, TRUE, HourText),
     challenge_id |-> NoText, nonce |-> NoText, pre |-> NoText, i |-> 0, attempts |-> 0,
     verified |-> NoText, verified_on |-> TextChallenge(<<30>>, Mask, RomText, <<50, 51>>, TRUE, HourText),
     post |-> NoPost]

\* py_miner1.py: workers whose run has not started, stop_event not set (line 62)
NoOneShot ==
    [stop_event |-> FALSE, lines |-> 0, pc |-> [w \in WorkerIds |-> "idle"],
     i |-> [w \in WorkerIds |-> 0], finds |-> [w \in WorkerIds |-> 0],
     posts |-> [w \in WorkerIds |-> <<>>]]

SbIdle == sb = NoSubmitter /\ ow = NoOneShot

\* every other script at rest
OtherIdle == PmIdle /\ FaIdle /\ HmIdle /\ BpIdle /\ OqIdle /\ CfIdle /\ SbIdle

\* the state main starts its loop from (lines 709-721), whatever the inputs
Start ==
    /\ now = Deadline
    /\ oracle_lines = 0
    /\ answered = 0
    /\ stop_event = FALSE
    /\ stats = [hashes |-> 0, solutions |-> 0]
    /\ challenge_fetched = FALSE
    /\ mpc = "clear"
    /\ c_idx = 1
    /\ a_idx = 1
    /\ current_challenge = 0
    /\ workers = <<>>
    /\ pc = [w \in WorkerIds |-> "unborn"]
    /\ challenge = [w \in WorkerIds |-> 0]
    /\ latest_ts = [w \in WorkerIds |-> 0]
    /\ batch_i = [w \in WorkerIds |-> 0]
    /\ hash_hex = [w \in WorkerIds |-> <<>>]
    /\ attempts = [w \in WorkerIds |-> 0]
    /\ sc = [w \in WorkerIds |-> NoStatus]
    /\ posted = [w \in WorkerIds |-> <<>>]
    /\ sock = [w \in WorkerIds |-> FALSE]

Init ==
    /\ challenges \in [1 .. NumChallenges -> ChallengeRows]
    /\ submit_on_find = TRUE
    /\ args_workers = workers_count
    /\ daemon_lines = OracleLines
    /\ oracle_budget = MaxHashes
    /\ Start
    /\ OtherIdle

\* ------------------------------------------------------------ environment
\* the wall clock advances; once it is past every deadline a further second
\* changes nothing the program can see
Tick ==
    /\ now <= Deadline
    /\ now' = now + 1
    /\ UNCHANGED <<envVars, stop_event, stats, challenge_fetched, mainVars, pc, localVars>>

\* ------------------------------------------------------------ main thread
\* main, line 732: stop_event.clear()
MainClear ==
    /\ mpc = "clear"
    /\ stop_event' = FALSE
    /\ mpc' = "reset"
    /\ UNCHANGED <<envVars, now, stats, challenge_fetched, c_idx, a_idx,
                   current_challenge, workers, pc, localVars>>

ResetStats_skip(s) == s

\* Stats.reset, lines 65-70
ResetStats(s) == [hashes |-> 0, solutions |-> 0]

\* main, line 733: stats.reset()
MainReset ==
    /\ mpc = "reset"
    /\ stats' = ResetStats(stats)
    /\ answered' = 0
    /\ mpc' = "set_challenge"
    /\ UNCHANGED <<inputVars, otherVars, oracle_lines, now, stop_event, challenge_fetched, c_idx, a_idx,
                   current_challenge, workers, pc, localVars>>

\* main, lines 735-743: a new Orchestrator (no challenge, no workers), then
\* Orchestrator.set_challenge(challenge), lines 495-502
MainSetChallenge ==
    /\ mpc = "set_challenge"
    /\ current_challenge' = c_idx
    /\ workers' = <<>>
    /\ mpc' = "run"
    /\ UNCHANGED <<envVars, now, stop_event, stats, challenge_fetched, c_idx, a_idx,
                   pc, localVars>>

\* Orchestrator.run, lines 522-540, up to the call of start_workers
OrchRun ==
    /\ mpc = "run"
    /\ mpc' = IF current_challenge = 0 THEN "advance" ELSE "start_workers"
    /\ UNCHANGED <<envVars, now, stop_event, stats, challenge_fetched, c_idx, a_idx,
                   current_challenge, workers, pc, localVars>>

SpawnCount_short == args_workers - 1

\* Orchestrator.start_workers, line 506: range(self.workers_count), which is
\* args.workers (lines 484, 740)
SpawnCount == args_workers

\* Orchestrator.start_workers, lines 506-510: one turn of the loop creates
\* Worker(i, ...) and submits its run to the executor
StartWorker ==
    /\ mpc = "start_workers"
    /\ IF Len(workers) < SpawnCount
       THEN LET i == Len(workers) IN
            /\ workers' = Append(workers, i)
            /\ pc' = [pc EXCEPT ![i] = "start"]
            /\ challenge' = [challenge EXCEPT ![i] = 0]
            /\ latest_ts' = [latest_ts EXCEPT ![i] = 0]
            /\ batch_i' = [batch_i EXCEPT ![i] = 0]
            /\ hash_hex' = [hash_hex EXCEPT ![i] = <<>>]
            /\ attempts' = [attempts EXCEPT ![i] = 0]
            /\ sc' = [sc EXCEPT ![i] = NoStatus]
            /\ posted' = [posted EXCEPT ![i] = <<>>]
            /\ sock' = [sock EXCEPT ![i] = FALSE]
            /\ mpc' = mpc
       ELSE /\ mpc' = "wait"
            /\ UNCHANGED <<workers, pc, localVars>>
    /\ UNCHANGED <<envVars, now, stop_event, stats, challenge_fetched, c_idx, a_idx,
                   current_challenge>>

\* Orchestrator.run, lines 544-556: the statistics loop ends when stop_event is set
OrchWait ==
    /\ mpc = "wait"
    /\ stop_event
    /\ mpc' = "stop_workers"
    /\ UNCHANGED <<envVars, now, stop_event, stats, challenge_fetched, c_idx, a_idx,
                   current_challenge, workers, pc, localVars>>

\* Orchestrator.stop_workers, line 514: stop_event.set()
StopWorkers ==
    /\ mpc = "stop_workers"
    /\ stop_event' = TRUE
    /\ mpc' = "join"
    /\ UNCHANGED <<envVars, now, stats, challenge_fetched, c_idx, a_idx,
                   current_challenge, workers, pc, localVars>>

PoolDrained_nowait == TRUE

\* Orchestrator.stop_workers, line 516: executor.shutdown(wait=True) returns
\* once every submitted run has returned or raised
PoolDrained == \A k \in 1 .. Len(workers) : pc[workers[k]] \in {"done", "crashed"}

JoinPool ==
    /\ mpc = "join"
    /\ PoolDrained
    /\ mpc' = "advance"
    /\ UNCHANGED <<envVars, now, stop_event, stats, challenge_fetched, c_idx, a_idx,
                   current_challenge, workers, pc, localVars>>

\* main, lines 721, 730, 746-754: next address, else next challenge, else the end
MainAdvance ==
    /\ mpc = "advance"
    /\ IF a_idx < NumAddresses
       THEN /\ a_idx' = a_idx + 1
            /\ c_idx' = c_idx
            /\ mpc' = "clear"
       ELSE IF c_idx < NumChallenges
       THEN /\ a_idx' = 1
            /\ c_idx' = c_idx + 1
            /\ mpc' = "clear"
       ELSE /\ UNCHANGED <<a_idx, c_idx>>
            /\ mpc' = "completed"
    /\ UNCHANGED <<envVars, now, stop_event, stats, challenge_fetched,
                   current_challenge, workers, pc, localVars>>

MainStep ==
    \/ MainClear
    \/ MainReset
    \/ MainSetChallenge
    \/ OrchRun
    \/ StartWorker
    \/ OrchWait
    \/ StopWorkers
    \/ JoinPool
    \/ MainAdvance

\* ---------------------------------------------------------- worker threads
W_start_clearing(w) ==
    /\ pc[w] = "start"
    /\ challenge_fetched' = TRUE
    /\ stop_event' = FALSE
    /\ pc' = [pc EXCEPT ![w] = "loop"]
    /\ UNCHANGED <<envVars, now, stats, mainVars, localVars>>

\* Worker.run, lines 386-389: _fetch_and_save_challenge (lines 348-382) marks
\* challenge_fetched whether or not the GET succeeded
W_start(w) ==
    /\ pc[w] = "start"
    /\ challenge_fetched' = TRUE
    /\ pc' = [pc EXCEPT ![w] = "loop"]
    /\ UNCHANGED <<envVars, now, stop_event, stats, mainVars, localVars>>

\* Worker.run, line 475: run returns, and its frame (every local) is gone;
\* the Worker object and its sock attribute stay as they are
ReturnFromRun(w) ==
    /\ challenge' = [challenge EXCEPT ![w] = 0]
    /\ latest_ts' = [latest_ts EXCEPT ![w] = 0]
    /\ batch_i' = [batch_i EXCEPT ![w] = 0]
    /\ hash_hex' = [hash_hex EXCEPT ![w] = <<>>]
    /\ attempts' = [attempts EXCEPT ![w] = 0]
    /\ sc' = [sc EXCEPT ![w] = NoStatus]
    /\ posted' = [posted EXCEPT ![w] = <<>>]
    /\ UNCHANGED sock

W_loop_deaf(w) ==
    /\ pc[w] = "loop"
    /\ pc' = [pc EXCEPT ![w] = "getch"]
    /\ UNCHANGED <<envVars, now, stop_event, stats, challenge_fetched, mainVars, localVars>>

\* Worker.run, line 391 (and 475): while not stop_event.is_set()
W_loop(w) ==
    /\ pc[w] = "loop"
    /\ IF stop_event
       THEN /\ pc' = [pc EXCEPT ![w] = "done"]
            /\ ReturnFromRun(w)
       ELSE /\ pc' = [pc EXCEPT ![w] = "getch"]
            /\ UNCHANGED localVars
    /\ UNCHANGED <<envVars, now, stop_event, stats, challenge_fetched, mainVars>>

\* Worker.run, lines 405-414: the deadline as an epoch second (None, written
\* 0, when the text does not parse)
ParseDeadline(row) == row.latest_submission

\* Worker.run, lines 392-417: read the shared challenge; without a challenge or
\* without its latest_submission key sleep and start over, else open a batch.
\* challenge["difficulty"] and challenge["challenge_id"] (lines 402-403) raise
\* KeyError when the key is not in the dict: nothing in run catches it, the
\* thread's run ends there ("crashed").
W_getch(w) ==
    /\ pc[w] = "getch"
    /\ IF current_challenge = 0
       THEN /\ pc' = [pc EXCEPT ![w] = "loop"]
            /\ challenge' = [challenge EXCEPT ![w] = current_challenge]
            /\ UNCHANGED <<latest_ts, batch_i, hash_hex, attempts, sc, posted, sock>>
       ELSE IF ~challenges[current_challenge].has_latest_submission
       THEN /\ pc' = [pc EXCEPT ![w] = "loop"]
            /\ challenge' = [challenge EXCEPT ![w] = current_challenge]
            /\ UNCHANGED <<latest_ts, batch_i, hash_hex, attempts, sc, posted, sock>>
       ELSE IF \/ ~challenges[current_challenge].has_difficulty
               \/ ~challenges[current_challenge].has_challenge_id
       THEN /\ pc' = [pc EXCEPT ![w] = "crashed"]
            /\ ReturnFromRun(w)
       ELSE /\ challenge' = [challenge EXCEPT ![w] = current_challenge]
            /\ latest_ts' = [latest_ts EXCEPT ![w] = ParseDeadline(challenges[current_challenge])]
            /\ batch_i' = [batch_i EXCEPT ![w] = 0]
            /\ pc' = [pc EXCEPT ![w] = "for"]
            /\ UNCHANGED <<hash_hex, attempts, sc, posted, sock>>
    /\ UNCHANGED <<envVars, now, stop_event, stats, challenge_fetched, mainVars>>

Expired_never(w) == FALSE

\* Worker.run, line 422: latest_ts and time.time() > latest_ts
Expired(w) == latest_ts[w] # 0 /\ now > latest_ts[w]

W_for_deaf(w) ==
    /\ pc[w] = "for"
    /\ IF batch_i[w] >= NONCE_BATCH \/ Expired(w)
       THEN /\ pc' = [pc EXCEPT ![w] = "loop"]
            /\ batch_i' = [batch_i EXCEPT ![w] = 0]
            /\ UNCHANGED <<challenge, latest_ts, hash_hex, attempts, sc, posted, sock>>
       ELSE IF ~challenges[challenge[w]].has_no_pre_mine
       THEN /\ pc' = [pc EXCEPT ![w] = "crashed"]
            /\ ReturnFromRun(w)
       ELSE /\ pc' = [pc EXCEPT ![w] = "query"]
            /\ UNCHANGED localVars
    /\ UNCHANGED <<envVars, now, stop_event, stats, challenge_fetched, mainVars>>

\* Worker.run, lines 418-430 and 474: the head of one turn of the for loop.
\* The batch ends when the range is used up, stop_event is set or the deadline
\* has passed; otherwise a nonce is drawn and the preimage goes to the oracle.
\* build_preimage (line 155) raises KeyError on a snapshot without no_pre_mine.
W_for(w) ==
    /\ pc[w] = "for"
    /\ IF batch_i[w] >= NONCE_BATCH \/ stop_event \/ Expired(w)
       THEN /\ pc' = [pc EXCEPT ![w] = "loop"]
            /\ batch_i' = [batch_i EXCEPT ![w] = 0]
            /\ UNCHANGED <<challenge, latest_ts, hash_hex, attempts, sc, posted, sock>>
       ELSE IF ~challenges[challenge[w]].has_no_pre_mine
       THEN /\ pc' = [pc EXCEPT ![w] = "crashed"]
            /\ ReturnFromRun(w)
       ELSE /\ pc' = [pc EXCEPT ![w] = "query"]
            /\ UNCHANGED localVars
    /\ UNCHANGED <<envVars, now, stop_event, stats, challenge_fetched, mainVars>>

\* Worker._send_pre_and_recv_hash, lines 288-294, on any exception: the socket
\* is closed and forgotten
DropSocket_keep(s, w) == s

DropSocket(s, w) == [s EXCEPT ![w] = FALSE]

\* Worker.run, lines 431-435, the call of _send_pre_and_recv_hash (lines
\* 265-294).  Without a socket _ensure_socket (lines 251-263) connects; when
\* that fails the call returns None.  With a socket, a failure of sendall or
\* of recv (a timeout and a zero-length read included) drops the socket and
\* the call returns None.  Else the call returns the line the daemon answered
\* and the socket is kept.  On None the turn of the for loop is over.
W_query(w) ==
    /\ pc[w] = "query"
    /\ \/ /\ ~sock[w]
          /\ batch_i' = [batch_i EXCEPT ![w] = @ + 1]
          /\ pc' = [pc EXCEPT ![w] = "for"]
          /\ UNCHANGED <<hash_hex, oracle_lines, answered, sock>>
       \/ /\ sock' = DropSocket(sock, w)
          /\ batch_i' = [batch_i EXCEPT ![w] = @ + 1]
          /\ pc' = [pc EXCEPT ![w] = "for"]
          /\ UNCHANGED <<hash_hex, oracle_lines, answered>>
       \/ /\ oracle_lines < oracle_budget
          /\ oracle_lines' = oracle_lines + 1
          /\ answered' = answered + 1
          /\ \E line \in daemon_lines : hash_hex' = [hash_hex EXCEPT ![w] = line]
          /\ sock' = [sock EXCEPT ![w] = TRUE]
          /\ pc' = [pc EXCEPT ![w] = "count"]
          /\ UNCHANGED batch_i
    /\ UNCHANGED <<inputVars, otherVars, now, stop_event, stats, challenge_fetched,
                   mainVars, challenge, latest_ts, attempts, sc, posted>>

add_hashes_overwrite(s, n) == [s EXCEPT !.hashes = n]

\* Stats.add_hashes, lines 53-55: self.hashes += n under the lock
add_hashes(s, n) == [s EXCEPT !.hashes = @ + n]

\* Worker.run, lines 436-439: stats.add_hashes(1), then the
\* difficulty test on the snapshot's difficulty
W_count(w) ==
    /\ pc[w] = "count"
    /\ stats' = add_hashes(stats, 1)
    /\ IF hash_meets_difficulty(hash_hex[w], challenges[challenge[w]].difficulty)
       THEN /\ pc' = [pc EXCEPT ![w] = "found"]
            /\ UNCHANGED batch_i
       ELSE /\ pc' = [pc EXCEPT ![w] = "for"]
            /\ batch_i' = [batch_i EXCEPT ![w] = @ + 1]
    /\ UNCHANGED <<envVars, now, stop_event, challenge_fetched, mainVars,
                   challenge, latest_ts, hash_hex, attempts, sc, posted, sock>>

inc_solutions_twice(s) == [s EXCEPT !.solutions = @ + 2]

inc_solutions_skip(s) == s

\* Stats.inc_solutions, lines 57-59
inc_solutions(s) == [s EXCEPT !.solutions = @ + 1]

W_found_eager(w) ==
    /\ pc[w] = "found"
    /\ stats' = inc_solutions(stats)
    /\ stop_event' = TRUE
    /\ IF submit_on_find
       THEN /\ attempts' = [attempts EXCEPT ![w] = 0]
            /\ sc' = [sc EXCEPT ![w] = NoStatus]
            /\ pc' = [pc EXCEPT ![w] = "submit"]
            /\ UNCHANGED batch_i
       ELSE /\ pc' = [pc EXCEPT ![w] = "loop"]
            /\ batch_i' = [batch_i EXCEPT ![w] = 0]
            /\ UNCHANGED <<attempts, sc>>
    /\ UNCHANGED <<envVars, now, challenge_fetched, mainVars,
                   challenge, latest_ts, hash_hex, posted, sock>>

W_found_always_submit(w) ==
    /\ pc[w] = "found"
    /\ stats' = inc_solutions(stats)
    /\ attempts' = [attempts EXCEPT ![w] = 0]
    /\ sc' = [sc EXCEPT ![w] = NoStatus]
    /\ pc' = [pc EXCEPT ![w] = "submit"]
    /\ UNCHANGED <<envVars, now, stop_event, challenge_fetched, mainVars,
                   challenge, latest_ts, batch_i, hash_hex, posted, sock>>

\* Worker.run, lines 440-445 (and 470-471 when submit_on_find is false):
\* stats.inc_solutions(), then the retry loop if submit_on_find, else the
\* batch is left
W_found(w) ==
    /\ pc[w] = "found"
    /\ stats' = inc_solutions(stats)
    /\ IF submit_on_find
       THEN /\ attempts' = [attempts EXCEPT ![w] = 0]
            /\ sc' = [sc EXCEPT ![w] = NoStatus]
            /\ pc' = [pc EXCEPT ![w] = "submit"]
            /\ UNCHANGED batch_i
       ELSE /\ pc' = [pc EXCEPT ![w] = "loop"]
            /\ batch_i' = [batch_i EXCEPT ![w] = 0]
            /\ UNCHANGED <<attempts, sc>>
    /\ UNCHANGED <<envVars, now, stop_event, challenge_fetched, mainVars,
                   challenge, latest_ts, hash_hex, posted, sock>>

MaxAttempts_four == 3 + 1

MaxAttempts_two == 3 - 1

\* Worker.run, line 446: while attempts < 3
MaxAttempts == 3

W_submit_noretry(w) ==
    /\ pc[w] = "submit"
    /\ \E r \in Outcomes :
          /\ sc' = [sc EXCEPT ![w] = r]
          /\ posted' = [posted EXCEPT ![w] = Append(@, r)]
          /\ IF r = Accepted
             THEN /\ stop_event' = TRUE
                  /\ pc' = [pc EXCEPT ![w] = "loop"]
                  /\ batch_i' = [batch_i EXCEPT ![w] = 0]
                  /\ UNCHANGED attempts
             ELSE /\ attempts' = [attempts EXCEPT ![w] = @ + 1]
                  /\ pc' = [pc EXCEPT ![w] =
                              IF r = NoStatus /\ attempts[w] + 1 < MaxAttempts
                              THEN "submit" ELSE "after"]
                  /\ UNCHANGED <<stop_event, batch_i>>
    /\ UNCHANGED <<envVars, now, stats, challenge_fetched, mainVars,
                   challenge, latest_ts, hash_hex, sock>>

W_submit_mute(w) ==
    /\ pc[w] = "submit"
    /\ \E r \in Outcomes :
          /\ sc' = [sc EXCEPT ![w] = r]
          /\ posted' = [posted EXCEPT ![w] = Append(@, r)]
          /\ IF r = Accepted
             THEN /\ pc' = [pc EXCEPT ![w] = "loop"]
                  /\ batch_i' = [batch_i EXCEPT ![w] = 0]
                  /\ UNCHANGED attempts
             ELSE /\ attempts' = [attempts EXCEPT ![w] = @ + 1]
                  /\ pc' = [pc EXCEPT ![w] =
                              IF attempts[w] + 1 < MaxAttempts THEN "submit" ELSE "after"]
                  /\ UNCHANGED batch_i
    /\ UNCHANGED <<envVars, now, stop_event, stats, challenge_fetched, mainVars,
                   challenge, latest_ts, hash_hex, sock>>

\* Worker.run, lines 446-462: one turn of the retry loop.  post_solution
\* (lines 119-130) returns the status, None (NoStatus) when no response came.
\* 201 sets stop_event and leaves the retry loop, and with it the batch (lines
\* 465, 470-471); anything else counts an attempt and is followed by sleep(1).
W_submit(w) ==
    /\ pc[w] = "submit"
    /\ \E r \in Outcomes :
          /\ sc' = [sc EXCEPT ![w] = r]
          /\ posted' = [posted EXCEPT ![w] = Append(@, r)]
          /\ IF r = Accepted
             THEN /\ stop_event' = TRUE
                  /\ pc' = [pc EXCEPT ![w] = "loop"]
                  /\ batch_i' = [batch_i EXCEPT ![w] = 0]
                  /\ UNCHANGED attempts
             ELSE /\ attempts' = [attempts EXCEPT ![w] = @ + 1]
                  /\ pc' = [pc EXCEPT ![w] =
                              IF attempts[w] + 1 < MaxAttempts THEN "submit" ELSE "after"]
                  /\ UNCHANGED <<stop_event, batch_i>>
    /\ UNCHANGED <<envVars, now, stats, challenge_fetched, mainVars,
                   challenge, latest_ts, hash_hex, sock>>

W_after_refused_only(w) ==
    /\ pc[w] = "after"
    /\ stop_event' = IF sc[w] = Rejected THEN TRUE ELSE stop_event
    /\ pc' = [pc EXCEPT ![w] = "loop"]
    /\ batch_i' = [batch_i EXCEPT ![w] = 0]
    /\ UNCHANGED <<envVars, now, stats, challenge_fetched, mainVars,
                   challenge, latest_ts, hash_hex, attempts, sc, posted, sock>>

W_after_silent(w) ==
    /\ pc[w] = "after"
    /\ pc' = [pc EXCEPT ![w] = "loop"]
    /\ batch_i' = [batch_i EXCEPT ![w] = 0]
    /\ UNCHANGED <<envVars, now, stop_event, stats, challenge_fetched, mainVars,
                   challenge, latest_ts, hash_hex, attempts, sc, posted, sock>>

\* Worker.run, lines 465-474, after the last attempt failed: a find whose
\* submission was not accepted still sets stop_event; then the batch is left
W_after(w) ==
    /\ pc[w] = "after"
    /\ stop_event' = IF sc[w] # Accepted THEN TRUE ELSE stop_event
    /\ pc' = [pc EXCEPT ![w] = "loop"]
    /\ batch_i' = [batch_i EXCEPT ![w] = 0]
    /\ UNCHANGED <<envVars, now, stats, challenge_fetched, mainVars,
                   challenge, latest_ts, hash_hex, attempts, sc, posted, sock>>

WorkerStep(w) ==
    \/ W_start(w)
    \/ W_loop(w)
    \/ W_getch(w)
    \/ W_for(w)
    \/ W_query(w)
    \/ W_count(w)
    \/ W_found(w)
    \/ W_submit(w)
    \/ W_after(w)

Next ==
    \/ Tick
    \/ MainStep
    \/ \E w \in WorkerIds : WorkerStep(w)

Spec == Init /\ [][Next]_vars

\* The runs whose CSV rows all carry the latest_submission key (a row without
\* it keeps every worker idle for good), with a pool of args.workers workers
\* and an oracle that answers one line in the run and then times out.
FairInit ==
    /\ challenges \in [1 .. NumChallenges -> ChallengeRows]
    /\ \A k \in 1 .. NumChallenges : challenges[k].has_latest_submission
    /\ submit_on_find = TRUE
    /\ args_workers = workers_count
    /\ daemon_lines = OracleLines
    /\ oracle_budget = 1
    /\ Start
    /\ OtherIdle

\* Every thread that can take a step eventually takes one: the threads are
\* scheduled by the operating system, and every call to the oracle or to the
\* remote service returns or times out.  Nothing is assumed of the clock, of
\* the oracle's answers or of the remote service's.
FairSpec ==
    /\ FairInit
    /\ [][Next]_vars
    /\ WF_vars(MainStep)
    /\ \A w \in WorkerIds : WF_vars(WorkerStep(w))

\* The miner before main's loop, on one fixed input: the state the other
\* scripts' specifications leave it in.
MinerAtRest ==
    /\ challenges = [k \in 1 .. NumChallenges |-> CompleteRow]
    /\ submit_on_find = TRUE
    /\ args_workers = workers_count
    /\ daemon_lines = OracleLines
    /\ oracle_budget = MaxHashes
    /\ Start

\* ------------------------------------------------- py_miner.py: Orchestrator
RunRequired_lax == {"challenge_id", "difficulty", "no_pre_mine"}

\* py_miner.py, line 324
RunRequired == {"challenge_id", "difficulty", "no_pre_mine", "latest_submission"}

\* py_miner.py, line 283
RefreshRequired == FieldNames

\* py_miner.py, Orchestrator.run, lines 312-337, with the service answering
\* from R: one GET at the start; the challenge is installed and the workers
\* are started (start_workers, lines 298-305) only when the status is 200, the
\* body an object with code "active" and the required keys are there
PM_RunFrom(R) ==
    /\ pm_pc = "run"
    /\ \E r \in R :
          /\ pm_resp' = r
          /\ IF r.sc # 200 \/ ~r.is_dict \/ r.code # "active"
             THEN pm_pc' = "returned" /\ UNCHANGED <<pm_current, pw>>
             ELSE IF ~(RunRequired \subseteq r.keys)
             THEN pm_pc' = "returned" /\ UNCHANGED <<pm_current, pw>>
             ELSE /\ pm_pc' = "started"
                  /\ pm_current' = [keys |-> r.keys, id |-> r.id]
                  /\ pw' = [pw EXCEPT !.pc = "loop"]
    /\ UNCHANGED <<minerVars, faVars, hmVars, bpVars, oqVars, cfVars, sbVars>>

PM_Run == PM_RunFrom(Responses)

\* py_miner.py, Orchestrator.refresh_challenge, lines 258-296, with the
\* service answering from R
PM_RefreshFrom(R) ==
    /\ pm_pc \in {"run", "started"}
    /\ \E r \in R :
          /\ pm_resp' = r
          /\ IF r.sc # 200 \/ ~r.is_dict
             THEN UNCHANGED pm_current
             ELSE IF r.code # "active"
             THEN pm_current' = NoChallenge
             ELSE IF ~(RefreshRequired \subseteq r.keys)
             THEN UNCHANGED pm_current
             ELSE pm_current' = [keys |-> r.keys, id |-> r.id]
    /\ UNCHANGED <<pm_pc, pw, minerVars, faVars, hmVars, bpVars, oqVars, cfVars, sbVars>>

PM_Refresh == PM_RefreshFrom(Responses)

FetchInit == MinerAtRest /\ OtherIdle
FetchNext == PM_Run \/ PM_Refresh
FetchSpec == FetchInit /\ [][FetchNext]_vars

\* ------------------------------------------------------ py_miner.py: Worker
BatchOver_never(i) == FALSE

\* py_miner.py, line 204: for _ in range(NONCE_BATCH)
BatchOver(i) == i >= NONCE_BATCH

\* py_miner.py, Worker.run, lines 176-177: while not stop_event.is_set()
PW_loop ==
    /\ pw.pc = "loop"
    /\ pw' = [pw EXCEPT !.pc = IF stop_event THEN "done" ELSE "getch"]
    /\ UNCHANGED <<pm_pc, pm_resp, pm_current, minerVars, faVars, hmVars, bpVars, oqVars, cfVars, sbVars>>

\* py_miner.py, Worker.run, lines 177-203: the worker reads the shared
\* challenge; without one, or without its latest_submission key, it sleeps and
\* starts over, else it keeps what it read for a batch
PW_getch ==
    /\ pw.pc = "getch"
    /\ pw' = IF pm_current = NoChallenge \/ "latest_submission" \notin pm_current.keys
             THEN [pw EXCEPT !.pc = "loop", !.challenge = 0, !.i = 0, !.stale = 0]
             ELSE [pc |-> "for", challenge |-> pm_current.id, i |-> 0, stale |-> 0]
    /\ UNCHANGED <<pm_pc, pm_resp, pm_current, minerVars, faVars, hmVars, bpVars, oqVars, cfVars, sbVars>>

\* py_miner.py, Worker.run, lines 204-235, one turn of the for loop: the batch
\* ends when its turns are used up, when stop_event is set or when the clock
\* is found past the deadline; else one preimage of the snapshot goes to the
\* oracle, and a find (posted if submit_on_find) ends the batch.  The counters
\* of Stats are not followed here.
PW_for ==
    /\ pw.pc = "for"
    /\ \/ /\ BatchOver(pw.i) \/ stop_event
          /\ pw' = [pw EXCEPT !.pc = "loop", !.i = 0]
       \/ /\ ~BatchOver(pw.i)
          /\ pw' = [pw EXCEPT !.pc = "loop", !.i = 0]
       \/ /\ ~BatchOver(pw.i)
          /\ ~stop_event
          /\ \E found \in BOOLEAN :
                pw' = [pw EXCEPT
                         !.pc = IF found THEN "loop" ELSE "for",
                         !.i = IF found THEN 0 ELSE @ + 1,
                         !.stale = IF pm_current # NoChallenge /\ pm_current.id # pw.challenge
                                   THEN @ + 1 ELSE @]
    /\ UNCHANGED <<pm_pc, pm_resp, pm_current, minerVars, faVars, hmVars, bpVars, oqVars, cfVars, sbVars>>

RotateInit == MinerAtRest /\ OtherIdle

RotateNext ==
    \/ PM_RunFrom(RotatingResponses)
    \/ PM_RefreshFrom(RotatingResponses)
    \/ PW_loop
    \/ PW_getch
    \/ PW_for

RotateSpec == RotateInit /\ [][RotateNext]_vars

\* ------------------------------- fullauto&workerrandom.py: start_workers
\* line 345: chunk_size = TOTAL_NONCE_SPACE // self.workers_count
chunk_size(n) == TOTAL_NONCE_SPACE \div n

EndNonce_overlap(i, n) == IF i = n - 1 THEN TOTAL_NONCE_SPACE ELSE (i + 1) * chunk_size(n) + 1

EndNonce_nospecial(i, n) == (i + 1) * chunk_size(n)

\* lines 356-359: the last worker searches to the end of the space
EndNonce(i, n) == IF i = n - 1 THEN TOTAL_NONCE_SPACE ELSE (i + 1) * chunk_size(n)

RandomOffsets_wide(n) == 0 .. (chunk_size(n) \div 10)

\* line 362: random.randint(0, chunk_size // 100), both ends included
RandomOffsets(n) == 0 .. (chunk_size(n) \div 100)

\* lines 351-378: one turn of the loop makes Worker(i, ..., start_nonce,
\* end_nonce) with start_nonce = i * chunk_size + random_offset, and appends
\* it to self.workers
FA_StartWorker ==
    /\ fa_pc = "start_workers"
    /\ Len(fa_ranges) - fa_run.base < fa_workers_count
    /\ LET i == Len(fa_ranges) - fa_run.base IN
         \E random_offset \in RandomOffsets(fa_workers_count) :
            fa_ranges' = Append(fa_ranges,
                [start_nonce |-> i * chunk_size(fa_workers_count) + random_offset,
                 end_nonce |-> EndNonce(i, fa_workers_count)])
    /\ UNCHANGED <<fa_pc, fa_workers_count, fa_run, minerVars, pmVars, hmVars, bpVars, oqVars, cfVars, sbVars>>

\* line 384: the loop is over
FA_Started ==
    /\ fa_pc = "start_workers"
    /\ Len(fa_ranges) - fa_run.base = fa_workers_count
    /\ fa_pc' = "started"
    /\ UNCHANGED <<fa_workers_count, fa_ranges, fa_run, minerVars, pmVars, hmVars, bpVars, oqVars, cfVars, sbVars>>

\* the pool sizes followed: the small ones, and as many workers as there are nonces
PoolSizes == (1 .. MaxPool) \cup {TOTAL_NONCE_SPACE}

\* one call of start_workers on a new Orchestrator
RangeInit ==
    /\ MinerAtRest
    /\ PmIdle
    /\ HmIdle
    /\ BpIdle
    /\ OqIdle
    /\ CfIdle
    /\ SbIdle
    /\ fa_pc = "start_workers"
    /\ fa_workers_count \in PoolSizes
    /\ fa_ranges = <<>>
    /\ fa_run = [NoRun EXCEPT !.calls = 1]

RangeNext == FA_StartWorker \/ FA_Started
RangeSpec == RangeInit /\ [][RangeNext]_vars

\* ---------------------------- fullauto&workerrandom.py: Orchestrator.run
\* lines 393-415: without a challenge run returns; else it calls start_workers
FA_Run ==
    /\ fa_pc = "run"
    /\ IF ~fa_run.ch
       THEN fa_pc' = "returned" /\ UNCHANGED fa_run
       ELSE /\ fa_pc' = "start_workers"
            /\ fa_run' = [fa_run EXCEPT !.base = Len(fa_ranges), !.calls = @ + 1]
    /\ UNCHANGED <<fa_workers_count, fa_ranges, minerVars, pmVars, hmVars, bpVars, oqVars, cfVars, sbVars>>

\* lines 418-435 and 446-463: the statistics loop runs while stop_event is not
\* set; it is left when stop_event is set or when the operator's
\* KeyboardInterrupt is caught (no worker of this script sets stop_event)
FA_Wait ==
    /\ fa_pc = "started"
    /\ fa_pc' = "stop_workers"
    /\ UNCHANGED <<fa_workers_count, fa_ranges, fa_run, minerVars, pmVars, hmVars, bpVars, oqVars, cfVars, sbVars>>

\* lines 436-443 and 464-466: finally, stop_workers (lines 386-391) sets
\* stop_event and shuts the executor down.  After the first block the method
\* goes on with its second block, which calls start_workers again (line 443).
FA_StopWorkers ==
    /\ fa_pc = "stop_workers"
    /\ IF fa_run.block = 1
       THEN /\ fa_pc' = "start_workers"
            /\ fa_run' = [fa_run EXCEPT !.stop_event = TRUE, !.block = 2,
                                        !.base = Len(fa_ranges), !.calls = @ + 1]
       ELSE /\ fa_pc' = "returned"
            /\ fa_run' = [fa_run EXCEPT !.stop_event = TRUE]
    /\ UNCHANGED <<fa_workers_count, fa_ranges, minerVars, pmVars, hmVars, bpVars, oqVars, cfVars, sbVars>>

\* main, lines 603-616: stop_event.clear(), a new Orchestrator with
\* args.workers workers, set_challenge, then run
RunInit ==
    /\ MinerAtRest
    /\ PmIdle
    /\ HmIdle
    /\ BpIdle
    /\ OqIdle
    /\ CfIdle
    /\ SbIdle
    /\ fa_pc = "run"
    /\ fa_workers_count \in 1 .. MaxPool
    /\ fa_ranges = <<>>
    /\ \E ch \in BOOLEAN : fa_run = [NoRun EXCEPT !.ch = ch]

RunNext == FA_Run \/ FA_StartWorker \/ FA_Started \/ FA_Wait \/ FA_StopWorkers
RunSpec == RunInit /\ [][RunNext]_vars

\* ------------------------------------------- hash_meets_difficulty on its own
\* four characters of hexadecimal text: "0000", "0001", "abcd", "ffff", "8000"
Words == {<<0, 0, 0, 0>>, <<0, 0, 0, 1>>, <<10, 11, 12, 13>>, <<15, 15, 15, 15>>,
          <<8, 0, 0, 0>>}

\* the texts over "0" and "f" of at most n characters
RECURSIVE Tails(_)
Tails(n) ==
    IF n = 0 THEN {<<>>}
    ELSE Tails(n - 1) \cup {Append(t, d) : t \in {u \in Tails(n - 1) : Len(u) = n - 1},
                                            d \in {0, 15}}

\* hashes of 8 hexadecimal characters and more; masks of 8
HashInputs == {a \o b \o t : a \in Words, b \in Words, t \in Tails(MaxTail)}
MaskInputs == {a \o b : a \in Words, b \in Words}

\* a call hash_meets_difficulty(hm_hash, hm_mask), lines 161-176
HM_Call ==
    /\ hm_pc = "call"
    /\ hm_result' = hash_meets_difficulty(hm_hash, hm_mask)
    /\ hm_pc' = "returned"
    /\ UNCHANGED <<hm_hash, hm_mask, minerVars, pmVars, faVars, bpVars, oqVars, cfVars, sbVars>>

MeetsInit ==
    /\ MinerAtRest
    /\ PmIdle
    /\ FaIdle
    /\ BpIdle
    /\ OqIdle
    /\ CfIdle
    /\ SbIdle
    /\ hm_hash \in HashInputs
    /\ hm_mask \in MaskInputs
    /\ hm_pc = "call"
    /\ hm_result = FALSE

MeetsNext == HM_Call
MeetsSpec == MeetsInit /\ [][MeetsNext]_vars

\* --------------------------------------------------- build_preimage on its own
\* "|" and the newline; like every character that is no hexadecimal digit they
\* are written as numbers above 15
Bar == 124
Newline == 110

\* texts of a nonce (16 characters in the source, line 114), of an address, of
\* a challenge_id and of a latest_submission
NonceTexts == {<<0, 1>>, <<10, 11, 12>>}
AddressTexts == {<<40, 41>>, <<42>>}
IdTexts == {<<30>>, <<31, 32>>}
DeadlineTexts == {<<50, 51>>}

PreimageChallenges ==
    {TextChallenge(id, d, rom, dl, TRUE, h) :
        id \in IdTexts, d \in {Mask, ZeroMask}, rom \in {RomText, <<20>>},
        dl \in DeadlineTexts, h \in {HourText, <<>>}}
    \cup
    {TextChallenge(id, d, rom, dl, FALSE, <<>>) :
        id \in IdTexts, d \in {Mask, ZeroMask}, rom \in {RomText, <<20>>},
        dl \in DeadlineTexts}

build_preimage_reordered(nonce_hex, address, ch) ==
    nonce_hex \o address \o ch.difficulty \o ch.challenge_id \o ch.no_pre_mine
        \o ch.latest_submission
        \o (IF ch.has_no_pre_mine_hour THEN ch.no_pre_mine_hour ELSE <<>>)

\* build_preimage, lines 144-159: "".join(parts), the last part being
\* str(challenge.get("no_pre_mine_hour", ""))
build_preimage(nonce_hex, address, ch) ==
    nonce_hex \o address \o ch.challenge_id \o ch.difficulty \o ch.no_pre_mine
        \o ch.latest_submission
        \o (IF ch.has_no_pre_mine_hour THEN ch.no_pre_mine_hour ELSE <<>>)

\* Worker.run, line 426
BP_Build ==
    /\ bp_pc = "build"
    /\ bp_pre' = build_preimage(bp_nonce, bp_address, bp_challenge)
    /\ bp_pc' = "built"
    /\ UNCHANGED <<bp_nonce, bp_address, bp_challenge, bp_line, minerVars, pmVars, faVars, hmVars, oqVars, cfVars, sbVars>>

\* Worker.run, lines 429-431: pre_with_rom = f"{rom}|{pre}";
\* _send_pre_and_recv_hash, lines 273-275: preimage + "\n" goes to the socket
BP_Send ==
    /\ bp_pc = "built"
    /\ bp_line' = bp_challenge.no_pre_mine \o <<Bar>> \o bp_pre \o <<Newline>>
    /\ bp_pc' = "sent"
    /\ UNCHANGED <<bp_nonce, bp_address, bp_challenge, bp_pre, minerVars, pmVars, faVars, hmVars, oqVars, cfVars, sbVars>>

PreimageInit ==
    /\ MinerAtRest
    /\ PmIdle
    /\ FaIdle
    /\ HmIdle
    /\ OqIdle
    /\ CfIdle
    /\ SbIdle
    /\ bp_pc = "build"
    /\ bp_nonce \in NonceTexts
    /\ bp_address \in AddressTexts
    /\ bp_challenge \in PreimageChallenges
    /\ bp_pre = <<>>
    /\ bp_line = <<>>

PreimageNext == BP_Build \/ BP_Send
PreimageSpec == PreimageInit /\ [][PreimageNext]_vars

\* ------------------------------------- Worker._send_pre_and_recv_hash, by bytes
\* " " and "\r", characters str.strip() removes
Space == 132
Return == 113
Whitespace == {Space, Return}

RECURSIVE LStrip(_)
LStrip(s) == IF s # <<>> /\ Head(s) \in Whitespace THEN LStrip(Tail(s)) ELSE s

RECURSIVE RStrip(_)
RStrip(s) == IF s # <<>> /\ s[Len(s)] \in Whitespace
             THEN RStrip(SubSeq(s, 1, Len(s) - 1)) ELSE s

\* str.strip(), line 285
strip(s) == RStrip(LStrip(s))

\* b.find(b"\n") != -1, line 283
HasNewline(b) == \E k \in 1 .. Len(b) : b[k] = Newline

\* buf.split(b"\n", 1)[0], line 285
BeforeNewline(s) ==
    IF HasNewline(s)
    THEN SubSeq(s, 1, (CHOOSE k \in 1 .. Len(s) :
                          s[k] = Newline /\ \A j \in 1 .. (k - 1) : s[j] # Newline) - 1)
    ELSE s

ParseLine_chunk(buf, b) == strip(BeforeNewline(b))

\* line 285: the line is cut from everything read so far (buf), b being the
\* chunk read last
ParseLine(buf, b) == strip(BeforeNewline(buf))

\* The daemon: the hash it computes for call k of worker w (distinct calls
\* have distinct hashes), and the bytes it may answer with: the hash and a
\* newline, with or without blanks around the hash.
HashOf(w, k) == <<w, k>>
ResponseShapes(h) == {h \o <<Newline>>, <<Space>> \o h \o <<Return, Newline>>}

\* a connection just made by worker w: the requests the daemon has read and not
\* answered, the bytes it has written that the client has not read, whether the
\* client has closed it, and (history) how many requests went out and lines
\* came back and the response the daemon wrote last
NewConn(w) == [owner |-> w, reqs |-> <<>>, wire |-> <<>>, closed |-> FALSE,
               sent |-> 0, got |-> 0, last |-> <<>>]

Connect_shared(cs, w) == 1

\* socket.create_connection, line 256: a connection of its own for the caller
Connect(cs, w) == Len(cs) + 1

SockAfterError_keep(c) == c

\* lines 289-293: self.sock.close(); self.sock = None
SockAfterError(c) == 0

\* calls made so far by the workers of set S
RECURSIVE CallsOf(_)
CallsOf(S) == IF S = {} THEN 0
              ELSE LET w == CHOOSE x \in S : TRUE
                   IN client[w].calls + CallsOf(S \ {w})

\* the worker calls _send_pre_and_recv_hash (Worker.run, line 431)
Q_Call(w) ==
    /\ client[w].pc = "idle"
    /\ CallsOf(OracleClients) < MaxCalls
    /\ client' = [client EXCEPT ![w].pc = "ensure", ![w].calls = @ + 1]
    /\ UNCHANGED <<conns, cfVars, sbVars, minerVars, pmVars, faVars, hmVars, bpVars>>

\* _ensure_socket, lines 251-263, and lines 267-270: a socket that is set is
\* kept; else a connection is tried, and when that fails the call returns None
Q_Ensure(w) ==
    /\ client[w].pc = "ensure"
    /\ IF client[w].sock # 0
       THEN /\ client' = [client EXCEPT ![w].pc = "send"]
            /\ UNCHANGED conns
       ELSE \/ LET c == Connect(conns, w) IN
               /\ client' = [client EXCEPT ![w].pc = "send", ![w].sock = c]
               /\ conns' = IF c > Len(conns) THEN Append(conns, NewConn(w)) ELSE conns
            \/ /\ client' = [client EXCEPT
                               ![w].pc = "idle",
                               ![w].ret = [call |-> client[w].calls, err |-> "connect",
                                           line |-> <<>>]]
               /\ UNCHANGED conns
    /\ UNCHANGED <<cfVars, sbVars, minerVars, pmVars, faVars, hmVars, bpVars>>

\* lines 287-294: any exception closes the socket, forgets it and returns None;
\* the daemon can write nothing more to a connection that is closed
Q_Fail(w, e) ==
    LET c == client[w].sock
        s == SockAfterError(c)
    IN /\ client' = [client EXCEPT
                       ![w].pc = "idle",
                       ![w].sock = s,
                       ![w].buf = <<>>,
                       ![w].reads = 0,
                       ![w].ret = [call |-> client[w].calls, err |-> e, line |-> <<>>]]
       /\ conns' = IF s = 0
                   THEN [conns EXCEPT ![c].closed = TRUE, ![c].wire = <<>>, ![c].reqs = <<>>]
                   ELSE conns

\* lines 273-277: sendall(preimage + "\n"), then an empty buf
Q_Send(w) ==
    /\ client[w].pc = "send"
    /\ \/ LET c == client[w].sock IN
          /\ conns' = [conns EXCEPT ![c].reqs = Append(@, <<w, client[w].calls>>),
                                    ![c].sent = @ + 1]
          /\ client' = [client EXCEPT ![w].pc = "recv", ![w].buf = <<>>, ![w].reads = 0]
       \/ Q_Fail(w, "send")
    /\ UNCHANGED <<cfVars, sbVars, minerVars, pmVars, faVars, hmVars, bpVars>>

\* lines 278-286, one turn of the read loop: recv returns some of the bytes
\* that have arrived, which go to buf, and the first newline ends the call with
\* the line; with nothing to read recv times out, or returns b"" when the
\* daemon has closed the stream
Q_Recv(w) ==
    /\ client[w].pc = "recv"
    /\ LET c == client[w].sock IN
       \/ \E n \in 1 .. Len(conns[c].wire) :
             LET b == SubSeq(conns[c].wire, 1, n)
                 buf == client[w].buf \o b
             IN /\ conns' = [conns EXCEPT
                               ![c].wire = SubSeq(@, n + 1, Len(@)),
                               ![c].got = IF HasNewline(b) THEN @ + 1 ELSE @]
                /\ client' = IF HasNewline(b)
                             THEN [client EXCEPT
                                     ![w].pc = "idle",
                                     ![w].buf = <<>>,
                                     ![w].reads = @ + 1,
                                     ![w].ret = [call |-> client[w].calls, err |-> "none",
                                                 line |-> ParseLine(buf, b)]]
                             ELSE [client EXCEPT ![w].buf = buf, ![w].reads = @ + 1]
       \/ /\ conns[c].wire = <<>>
          /\ Q_Fail(w, "timeout")
       \/ /\ conns[c].wire = <<>>
          /\ Q_Fail(w, "closed")
    /\ UNCHANGED <<cfVars, sbVars, minerVars, pmVars, faVars, hmVars, bpVars>>

\* The daemon answers the oldest request it has read on connection c, however
\* late.
D_Answer(c) ==
    /\ conns[c].reqs # <<>>
    /\ LET r == Head(conns[c].reqs) IN
       \E resp \in ResponseShapes(HashOf(r[1], r[2])) :
          conns' = [conns EXCEPT ![c].reqs = Tail(@), ![c].wire = @ \o resp,
                                 ![c].last = resp]
    /\ UNCHANGED <<client, cfVars, sbVars, minerVars, pmVars, faVars, hmVars, bpVars>>

OracleInit == MinerAtRest /\ OtherIdle

OracleNext ==
    \/ \E w \in OracleClients : Q_Call(w) \/ Q_Ensure(w) \/ Q_Send(w) \/ Q_Recv(w)
    \/ \E c \in 1 .. Len(conns) : D_Answer(c)

OracleSpec == OracleInit /\ [][OracleNext]_vars

\* ------------------------------------------- _fetch_and_save_challenge
\* every worker of every iteration calls it once, at the start of its run (line 389)
MaxEntries == workers_count * NumAddresses * NumChallenges

FetchedUnderLock_blind(f) == FALSE

\* line 356: challenge_fetched.is_set(), read with challenge_fetch_lock held
FetchedUnderLock(f) == f

\* Worker.run, line 389: a worker thread calls _fetch_and_save_challenge
CF_Enter(w) ==
    /\ cf.pc[w] = "idle"
    /\ cf.entries < MaxEntries
    /\ cf' = [cf EXCEPT !.pc[w] = "check", !.entries = @ + 1]
    /\ UNCHANGED <<minerVars, pmVars, faVars, hmVars, bpVars, oqVars, sbVars>>

\* lines 351-353: the first test, without the lock
CF_Check(w) ==
    /\ cf.pc[w] = "check"
    /\ cf' = [cf EXCEPT !.pc[w] = IF cf.challenge_fetched THEN "idle" ELSE "acquire"]
    /\ UNCHANGED <<minerVars, pmVars, faVars, hmVars, bpVars, oqVars, sbVars>>

\* line 355: with challenge_fetch_lock: the lock is taken when it is free
CF_Acquire(w) ==
    /\ cf.pc[w] = "acquire"
    /\ cf.holder = -1
    /\ cf' = [cf EXCEPT !.pc[w] = "recheck", !.holder = w]
    /\ UNCHANGED <<minerVars, pmVars, faVars, hmVars, bpVars, oqVars, sbVars>>

\* lines 356-357: the event is tested again; when it is set the method
\* returns, which releases the lock
CF_Recheck(w) ==
    /\ cf.pc[w] = "recheck"
    /\ cf' = IF FetchedUnderLock(cf.challenge_fetched)
             THEN [cf EXCEPT !.pc[w] = "idle", !.holder = -1]
             ELSE [cf EXCEPT !.pc[w] = "get"]
    /\ UNCHANGED <<minerVars, pmVars, faVars, hmVars, bpVars, oqVars, sbVars>>

\* lines 358-379: safe_get_challenge is called; it comes back with a
\* challenge object, which _save_challenge_to_csv is given ("saved"), with
\* another payload or status ("skipped"), or an exception is caught
\* ("failed"); the finally clause is next
CF_Get(w) ==
    /\ cf.pc[w] = "get"
    /\ \E outcome \in {"saved", "skipped", "failed"} :
          cf' = [cf EXCEPT !.pc[w] = "finally", !.gets = @ + 1, !.last = outcome]
    /\ UNCHANGED <<minerVars, pmVars, faVars, hmVars, bpVars, oqVars, sbVars>>

\* lines 380-382: challenge_fetched.set(), then the lock is released
CF_Finally(w) ==
    /\ cf.pc[w] = "finally"
    /\ cf' = [cf EXCEPT !.pc[w] = "idle", !.challenge_fetched = TRUE, !.holder = -1]
    /\ UNCHANGED <<minerVars, pmVars, faVars, hmVars, bpVars, oqVars, sbVars>>

FetchOnceInit == MinerAtRest /\ OtherIdle

FetchOnceNext ==
    \E w \in WorkerIds :
        \/ CF_Enter(w)
        \/ CF_Check(w)
        \/ CF_Acquire(w)
        \/ CF_Recheck(w)
        \/ CF_Get(w)
        \/ CF_Finally(w)

FetchOnceSpec == FetchOnceInit /\ [][FetchOnceNext]_vars

\* ------------------------------ Worker.run with the texts of a submission
SubmitId_current(snapshot_id, current_id) == current_id

\* Worker.run, lines 403 and 448: the challenge_id handed to post_solution is
\* the local read from the snapshot at the start of the batch
SubmitId(snapshot_id, current_id) == snapshot_id

SbOthers == <<ow, minerVars, pmVars, faVars, hmVars, bpVars, oqVars, cfVars>>

\* Orchestrator.set_challenge, lines 495-502, called while a worker runs: the
\* reference is replaced under the lock, the dict it pointed to is left as it is
SB_SetChallenge ==
    /\ sb.pc # "idle"
    /\ \E ch \in SubmitChallenges \ {sb.current} : sb' = [sb EXCEPT !.current = ch]
    /\ UNCHANGED SbOthers

\* Worker.run, lines 392-417: the snapshot and the locals read from it
SB_getch ==
    /\ sb.pc = "getch"
    /\ sb' = [sb EXCEPT !.pc = "for", !.challenge = sb.current,
                        !.challenge_id = sb.current.challenge_id, !.i = 0]
    /\ UNCHANGED SbOthers

\* Worker.run, lines 418-426: the head of a turn of the for loop; a nonce is
\* drawn and the preimage is built from the snapshot
SB_for ==
    /\ sb.pc = "for"
    /\ IF sb.i >= NONCE_BATCH
       THEN sb' = [sb EXCEPT !.pc = "getch", !.i = 0]
       ELSE \E nonce \in NonceTexts :
               sb' = [sb EXCEPT !.pc = "query", !.nonce = nonce,
                                !.pre = build_preimage(nonce, sb.address, sb.challenge)]
    /\ UNCHANGED SbOthers

\* Worker.run, lines 429-445: the oracle returns nothing, a hash that does not
\* meet the snapshot's difficulty, or one that does
SB_query ==
    /\ sb.pc = "query"
    /\ \/ sb' = [sb EXCEPT !.pc = "for", !.i = @ + 1]
       \/ sb' = [sb EXCEPT !.pc = "submit", !.attempts = 0,
                           !.verified = sb.pre, !.verified_on = sb.challenge]
    /\ UNCHANGED SbOthers

\* Worker.run, lines 446-471: one turn of the retry loop,
\* post_solution(self.base_url, self.address, challenge_id, nonce); after 201 or
\* the last attempt stop_event is set and run returns
SB_submit ==
    /\ sb.pc = "submit"
    /\ \E r \in Outcomes :
         sb' = [sb EXCEPT
                  !.post = [address |-> sb.address,
                            challenge_id |-> SubmitId(sb.challenge_id, sb.current.challenge_id),
                            nonce |-> sb.nonce],
                  !.attempts = IF r = Accepted THEN @ ELSE @ + 1,
                  !.pc = IF r = Accepted \/ sb.attempts + 1 >= MaxAttempts
                         THEN "done" ELSE "submit"]
    /\ UNCHANGED SbOthers

\* main, lines 735-745: an Orchestrator for one address with a challenge set,
\* whose worker starts its run
SubmitInit ==
    /\ MinerAtRest
    /\ PmIdle
    /\ FaIdle
    /\ HmIdle
    /\ BpIdle
    /\ OqIdle
    /\ CfIdle
    /\ \E a \in AddressTexts, ch \in SubmitChallenges :
          sb = [NoSubmitter EXCEPT !.pc = "getch", !.address = a, !.current = ch]
    /\ ow = NoOneShot

SubmitNext == SB_SetChallenge \/ SB_getch \/ SB_for \/ SB_query \/ SB_submit
SubmitSpec == SubmitInit /\ [][SubmitNext]_vars

\* ------------------------------------------------ py_miner1.py: Worker.run
StopAfterPost_any(r) == TRUE

\* py_miner1.py, lines 277-279: if sc == 201: stop_event.set()
StopAfterPost(r) == r = Accepted

OwOthers == <<sb, minerVars, pmVars, faVars, hmVars, bpVars, oqVars, cfVars>>

\* py_miner1.py, Worker.run, line 221 (and 289): while not stop_event.is_set()
OW_loop(w) ==
    /\ ow.pc[w] = "loop"
    /\ ow' = [ow EXCEPT !.pc[w] = IF ow.stop_event THEN "done" ELSE "getch"]
    /\ UNCHANGED OwOthers

\* lines 222-247: the challenge is read and a batch is opened
OW_getch(w) ==
    /\ ow.pc[w] = "getch"
    /\ ow' = [ow EXCEPT !.pc[w] = "for", !.i[w] = 0]
    /\ UNCHANGED OwOthers

\* lines 248-255: the head of a turn of the for loop; the batch ends when the
\* range is used up, when stop_event is set or when the clock is found past
\* the deadline
OW_for(w) ==
    /\ ow.pc[w] = "for"
    /\ \/ /\ ow.i[w] >= NONCE_BATCH \/ ow.stop_event
          /\ ow' = [ow EXCEPT !.pc[w] = "loop", !.i[w] = 0]
       \/ /\ ow.i[w] < NONCE_BATCH
          /\ ow' = [ow EXCEPT !.pc[w] = "loop", !.i[w] = 0]
       \/ /\ ow.i[w] < NONCE_BATCH
          /\ ~ow.stop_event
          /\ ow' = [ow EXCEPT !.pc[w] = "query"]
    /\ UNCHANGED OwOthers

\* lines 256-270: a new nonce goes to the oracle; no answer or a hash that
\* does not meet the difficulty ends the turn; a hash that meets it is a find
\* (stats.inc_solutions), which with submit_on_find (always set, line 423)
\* leads to post_solution
OW_query(w) ==
    /\ ow.pc[w] = "query"
    /\ \/ ow' = [ow EXCEPT !.pc[w] = "for", !.i[w] = @ + 1]
       \/ /\ ow.lines <= MaxHashes
          /\ ow' = [ow EXCEPT !.pc[w] = "for", !.i[w] = @ + 1, !.lines = @ + 1]
       \/ /\ ow.lines <= MaxHashes
          /\ ow' = [ow EXCEPT !.pc[w] = "post", !.lines = @ + 1, !.finds[w] = @ + 1,
                               !.posts[w] = <<>>]
    /\ UNCHANGED OwOthers

\* lines 271-287: one call of post_solution; 201 sets stop_event; then the
\* batch is left
OW_post(w) ==
    /\ ow.pc[w] = "post"
    /\ \E r \in Outcomes :
          ow' = [ow EXCEPT !.pc[w] = "loop", !.i[w] = 0, !.posts[w] = Append(@, r),
                           !.stop_event = @ \/ StopAfterPost(r)]
    /\ UNCHANGED OwOthers

\* py_miner1.py, Orchestrator.start_workers: the workers of one pool run
OneShotInit ==
    /\ MinerAtRest
    /\ PmIdle
    /\ FaIdle
    /\ HmIdle
    /\ BpIdle
    /\ OqIdle
    /\ CfIdle
    /\ sb = NoSubmitter
    /\ ow = [NoOneShot EXCEPT !.pc = [w \in WorkerIds |-> "loop"]]

OneShotNext ==
    \E w \in WorkerIds :
        \/ OW_loop(w)
        \/ OW_getch(w)
        \/ OW_for(w)
        \/ OW_query(w)
        \/ OW_post(w)

OneShotSpec == OneShotInit /\ [][OneShotNext]_vars

\* The runs of a pool of two workers on complete rows, with an oracle that
\* answers one line more, so that both workers can get a line in one iteration.
CountInit ==
    /\ challenges \in [1 .. NumChallenges -> {CompleteRow}]
    /\ submit_on_find = TRUE
    /\ args_workers = 2
    /\ daemon_lines = OracleLines
    /\ oracle_budget = MaxHashes + 1
    /\ Start
    /\ OtherIdle

CountSpec == CountInit /\ [][Next]_vars

\* every kind of line the daemon may write back: a hash that meets Mask, one
\* that does not, the all-zero hash, a line that is too short, a line that is
\* not hexadecimal, the empty line
AllLines == OracleLines \cup {ZeroLine, ShortLine, NonHexLine, <<>>}

\* The runs of a pool of one worker, on any rows a CSV file can hold, with or
\* without submission of the finds (Worker.submit_on_find, line 247), with an
\* oracle that answers any line or one whose every line is the all-zero hash.
UnitInit ==
    /\ challenges \in [1 .. NumChallenges -> DefectRows]
    /\ submit_on_find \in BOOLEAN
    /\ args_workers = 1
    /\ daemon_lines \in {AllLines, {ZeroLine}}
    /\ oracle_budget = MaxHashes + 1
    /\ Start
    /\ OtherIdle

UnitSpec == UnitInit /\ [][Next]_vars

\* The same runs under the scheduling of FairSpec.
UnitFairSpec ==
    /\ UnitInit
    /\ [][Next]_vars
    /\ WF_vars(MainStep)
    /\ \A w \in WorkerIds : WF_vars(WorkerStep(w))

\* ------------------------------------------------------------- properties
Last(s) == s[Len(s)]
NoneAccepted(s) == \A k \in 1 .. Len(s) : s[k] # Accepted
\* the worker's last POST returned 201
AcceptedBy(w) == posted[w] # <<>> /\ Last(posted[w]) = Accepted
AllDone == \A w \in WorkerIds : pc[w] = "done"
ZeroStats == stats.hashes = 0 /\ stats.solutions = 0
\* the deadline of the installed challenge has passed
DeadlinePassed ==
    /\ current_challenge # 0
    /\ challenges[current_challenge].has_latest_submission
    /\ challenges[current_challenge].latest_submission # 0
    /\ now > challenges[current_challenge].latest_submission

\* C1: a worker that has left the retry loop after POST attempts none of which
\* returned 201 has set stop_event by the time it is back at the head of its
\* run loop; after three attempts without a response there is no further
\* attempt, the last status is not 201 and stop_event gets set.
C1_FailedSubmissionSetsStop ==
    \A w \in WorkerIds :
        /\ (posted[w] # <<>> /\ NoneAccepted(posted[w]) /\ pc[w] \notin {"submit", "after"})
              => stop_event
        /\ (posted[w] = <<NoStatus, NoStatus, NoStatus>>)
              => pc[w] \in {"after", "loop"} /\ sc[w] = NoStatus

C1_Witness ==
    \E w \in WorkerIds :
        posted[w] = <<NoStatus, NoStatus, NoStatus>> /\ pc[w] = "loop" /\ stop_event

\* C2: after two POSTs without a response the worker is about to POST a third
\* time; when that third POST returns 201 the worker has issued exactly three
\* POSTs, issues no more, holds the status 201 and stop_event is set.
C2_TransientTransientAccepted ==
    \A w \in WorkerIds :
        /\ posted[w] = <<NoStatus, NoStatus>> => pc[w] = "submit"
        /\ posted[w] = <<NoStatus, NoStatus, Accepted>>
              => pc[w] = "loop" /\ sc[w] = Accepted /\ stop_event

C2_Witness ==
    \E w \in WorkerIds :
        posted[w] = <<NoStatus, NoStatus, Accepted>> /\ pc[w] = "loop" /\ stop_event

C4_AcceptedStopsWorker ==
    /\ [](\A w \in WorkerIds : AcceptedBy(w) => stop_event /\ pc[w] = "loop")
    /\ [][\A w \in WorkerIds :
            (AcceptedBy(w) /\ pc'[w] # pc[w])
               => /\ pc'[w] = "done"
                  /\ stats' = stats
                  /\ oracle_lines' = oracle_lines]_vars

C4_Witness ==
    \E w \in WorkerIds : AcceptedBy(w) /\ pc[w] = "loop" /\ stop_event

\* C5: a set stop_event is unset only by main's stop_event.clear() at the
\* start of an iteration, a step of the main thread that moves no worker;
\* every other step taken while it is set, a second set included, leaves it set.
C5_StopOnlyClearedByMain ==
    [][stop_event /\ ~stop_event'
          => mpc = "clear" /\ mpc' = "reset" /\ pc' = pc]_vars

C5_Witness ==
    mpc = "join" /\ stop_event /\ \E w \in WorkerIds : pc[w] \notin {"done", "unborn"}

\* C6: once stop_event is set no worker passes the head of its run loop into a
\* new batch, and every worker of the pool returns from run.
C6_StopReachesEveryWorker ==
    /\ [][\A w \in WorkerIds : stop_event => ~(pc[w] = "loop" /\ pc'[w] = "getch")]_vars
    /\ (stop_event ~> AllDone)

C6_Witness ==
    \E w, v \in WorkerIds :
        /\ w # v
        /\ stop_event
        /\ posted[w] # <<>>
        /\ pc[v] \in {"for", "query"}

\* C7: when the deadline of the installed challenge has passed while the
\* orchestrator waits, the wait eventually ends and main moves on.
C7_ExpiryEndsIteration ==
    (mpc = "wait" /\ DeadlinePassed) ~> (mpc = "advance")

\* C8: whenever main is outside Orchestrator.run's pool phase, in particular
\* when it clears stop_event, no worker is running.
C8_PoolJoinedBeforeNextIteration ==
    mpc \notin {"start_workers", "wait", "stop_workers", "join"}
       => \A w \in WorkerIds : pc[w] \in {"unborn", "done"}

C8_Witness ==
    mpc = "clear" /\ a_idx = 2 /\ AllDone /\ stop_event

\* C9 as stated: every worker that has been spawned and has not yet taken a
\* step sees stop_event clear, both counters 0 and this iteration's challenge.
C9_EveryFirstStepSeesFreshState ==
    \A w \in WorkerIds :
        pc[w] = "start" => ~stop_event /\ ZeroStats /\ current_challenge = c_idx

\* C9 amended: main clears stop_event, then resets the counters, then installs
\* the challenge, then spawns; stop_event is clear and both counters are 0 as
\* long as no worker of the iteration has taken a step, and every worker takes
\* its first step with this iteration's challenge installed.
C9_OrderAndFirstWorkerStep ==
    /\ mpc = "reset" => ~stop_event
    /\ mpc = "set_challenge" => ~stop_event /\ ZeroStats
    /\ mpc = "run" => ~stop_event /\ ZeroStats /\ current_challenge = c_idx
    /\ (mpc \in {"start_workers", "wait"}
          /\ \A k \in 1 .. Len(workers) : pc[workers[k]] = "start")
          => ~stop_event /\ ZeroStats
    /\ \A w \in WorkerIds :
          pc[w] = "start"
             => /\ current_challenge = c_idx
                /\ mpc \in {"start_workers", "wait", "stop_workers", "join"}

C9_Witness ==
    /\ a_idx = 2
    /\ mpc = "wait"
    /\ \A w \in WorkerIds : pc[w] = "start"
    /\ ZeroStats
    /\ ~stop_event

\* C10: once start_workers has run, the pool holds exactly workers_count
\* workers, their ids are 0 .. workers_count-1 in order of creation, and each
\* of them has been started.
C10_ExactlyNWorkers ==
    /\ \A k \in 1 .. Len(workers) : workers[k] = k - 1
    /\ mpc \in {"wait", "stop_workers", "join"}
          => /\ Len(workers) = workers_count
             /\ \A w \in WorkerIds : pc[w] # "unborn"

C10_Witness ==
    mpc = "wait" /\ Len(workers) = workers_count /\ \A w \in WorkerIds : pc[w] # "unborn"

\* workers that hold a line of the oracle they have not counted yet
Uncounted == {w \in WorkerIds : pc[w] = "count"}

AllFields(row) ==
    /\ row.has_challenge_id
    /\ row.has_difficulty /\ row.difficulty # <<>>
    /\ row.has_no_pre_mine /\ row.no_pre_mine # <<>>
    /\ row.has_latest_submission
    /\ row.has_no_pre_mine_hour /\ row.no_pre_mine_hour # <<>>

\* C12: a worker that queries the oracle, counts, or submits holds a snapshot
\* of a challenge with all five fields present and non-empty; with no challenge
\* or one that lacks a field it has issued no query, and no worker's run ends
\* by an exception.
C12_ActsOnlyOnCompleteChallenge ==
    \A w \in WorkerIds :
        /\ pc[w] \in {"query", "count", "found", "submit", "after"}
              => challenge[w] # 0 /\ AllFields(challenges[challenge[w]])
        /\ (current_challenge # 0 /\ ~AllFields(challenges[current_challenge]))
              => answered = 0
        /\ pc[w] # "crashed"

\* C13: whenever py_miner's Orchestrator holds a challenge, it came from an
\* answer with status 200 and code "active" that carried every required key;
\* a challenge without latest_submission is never installed.
C13_InstalledOnlyIfActiveAndComplete ==
    /\ [](pm_current # NoChallenge
            => RunRequired \subseteq pm_current.keys
               /\ "latest_submission" \in pm_current.keys)
    /\ [][(pm_current' # pm_current /\ pm_current' # NoChallenge)
            => /\ pm_resp'.sc = 200 /\ pm_resp'.is_dict /\ pm_resp'.code = "active"
               /\ pm_current'.keys = pm_resp'.keys]_vars
    /\ [][("latest_submission" \notin pm_resp'.keys /\ pm_resp' # pm_resp)
            => (pm_current' = pm_current \/ pm_current' = NoChallenge)]_vars

C13_Witness ==
    /\ pm_pc = "started"
    /\ pm_current # NoChallenge
    /\ pm_current.keys = RunRequired
    /\ pm_resp.code = "active"

\* C14: once start_workers has made its workers_count workers, every nonce of
\* the space lies in the range [start_nonce, end_nonce) of some worker.
C14_RangesCoverSpace ==
    fa_pc = "started"
       => \A x \in 0 .. (TOTAL_NONCE_SPACE - 1) :
             \E k \in 1 .. Len(fa_ranges) :
                fa_ranges[k].start_nonce <= x /\ x < fa_ranges[k].end_nonce

\* C15: the range of the last worker ends at TOTAL_NONCE_SPACE, whatever the
\* remainder of the division by the worker count, and the range of every
\* other worker i (from 0) ends at (i + 1) * (TOTAL_NONCE_SPACE div N).
C15_UpperBounds ==
    /\ \A k \in 1 .. Len(fa_ranges) :
          k < fa_workers_count
             => fa_ranges[k].end_nonce = k * (TOTAL_NONCE_SPACE \div fa_workers_count)
    /\ fa_pc = "started"
          => /\ Len(fa_ranges) = fa_workers_count
             /\ fa_ranges[fa_workers_count].end_nonce = TOTAL_NONCE_SPACE

C15_Witness ==
    /\ fa_pc = "started"
    /\ fa_workers_count > 1
    /\ TOTAL_NONCE_SPACE % fa_workers_count # 0
    /\ fa_ranges[fa_workers_count].end_nonce = TOTAL_NONCE_SPACE

\* the number four characters of hexadecimal text stand for
Val16(s, from) == s[from] * 4096 + s[from + 1] * 256 + s[from + 2] * 16 + s[from + 3]
\* bit b of a number
BitOf(x, b) == (x \div (2 ^ b)) % 2
\* (int(h[0:8],16) & ~int(m,16)) & 0xFFFFFFFF == 0, on the two 16-bit halves
AndNotIsZero(h, m) ==
    \A from \in {1, 5} : \A b \in 0 .. 15 :
        ~(BitOf(Val16(h, from), b) = 1 /\ BitOf(Val16(m, from), b) = 0)

Prefix(h) == SubSeq(h, 1, 8)
\* "ffff0000", "0000abcd", "0001abcd", "abcd0000"
Mask_ffff0000 == <<15, 15, 15, 15, 0, 0, 0, 0>>
Hash_0000abcd == <<0, 0, 0, 0, 10, 11, 12, 13>>
Hash_0001abcd == <<0, 0, 0, 1, 10, 11, 12, 13>>
Hash_abcd0000 == <<10, 11, 12, 13, 0, 0, 0, 0>>

\* C16 as stated: the result is True exactly when the prefix and-ed with the
\* complement of the mask is 0 in 32 bits; what follows the first 8 characters
\* does not count; mask ffff0000 accepts the prefix 0000abcd and rejects the
\* prefix 0001abcd.
C16_MeetsFormulaAndExample ==
    hm_pc = "returned"
       => /\ hm_result = AndNotIsZero(hm_hash, hm_mask)
          /\ hm_result = hash_meets_difficulty(Prefix(hm_hash), hm_mask)
          /\ (hm_mask = Mask_ffff0000 /\ Prefix(hm_hash) = Hash_0000abcd) => hm_result = TRUE
          /\ (hm_mask = Mask_ffff0000 /\ Prefix(hm_hash) = Hash_0001abcd) => hm_result = FALSE

\* C16 amended: the same formula and the same independence of what follows the
\* first 8 characters; mask ffff0000 accepts the prefix abcd0000 and rejects
\* the prefixes 0000abcd and 0001abcd.
C16_MeetsFormula ==
    hm_pc = "returned"
       => /\ hm_result = AndNotIsZero(hm_hash, hm_mask)
          /\ hm_result = hash_meets_difficulty(Prefix(hm_hash), hm_mask)
          /\ (hm_mask = Mask_ffff0000 /\ Prefix(hm_hash) = Hash_abcd0000) => hm_result = TRUE
          /\ (hm_mask = Mask_ffff0000 /\ Prefix(hm_hash) = Hash_0000abcd) => hm_result = FALSE
          /\ (hm_mask = Mask_ffff0000 /\ Prefix(hm_hash) = Hash_0001abcd) => hm_result = FALSE

C16_Witness ==
    /\ hm_mask = Mask_ffff0000
    /\ Prefix(hm_hash) = Hash_abcd0000
    /\ Len(hm_hash) > 8
    /\ hm_pc = "returned"
    /\ hm_result = TRUE

\* the hash is shorter than 8 characters (empty included), or its first 8
\* characters or the difficulty are not hexadecimal text
Malformed(line, difficulty_hex) ==
    \/ Len(line) < 8
    \/ ~IsHex(SubSeq(line, 1, 8))
    \/ ~IsHex(difficulty_hex)

\* the line worker w holds and the difficulty of its snapshot are malformed
HoldsMalformed(w) ==
    /\ challenge[w] # 0
    /\ Malformed(hash_hex[w], challenges[challenge[w]].difficulty)

\* C17: on a malformed line or difficulty the test returns False without
\* raising: the worker that counted such a line goes on with its batch, the
\* solution counter stays, and no worker ever holds a find, or has submitted
\* one, made of a malformed line or difficulty.
C17_MalformedIsNeverAHit ==
    /\ [](\A w \in WorkerIds :
            (pc[w] \in {"found", "submit", "after"} \/ posted[w] # <<>>)
               => ~HoldsMalformed(w))
    /\ [][\A w \in WorkerIds :
            (pc[w] = "count" /\ HoldsMalformed(w) /\ pc'[w] # "count")
               => pc'[w] = "for" /\ stats'.solutions = stats.solutions]_vars

C17_Witness ==
    \E w \in WorkerIds :
        /\ pc[w] = "for"
        /\ hash_hex[w] = NonHexLine
        /\ HoldsMalformed(w)
        /\ stats.hashes = 1
        /\ stats.solutions = 0

\* the seven parts of the preimage of the call at hand, in the claimed order
Parts ==
    <<bp_nonce, bp_address, bp_challenge.challenge_id, bp_challenge.difficulty,
      bp_challenge.no_pre_mine, bp_challenge.latest_submission,
      IF bp_challenge.has_no_pre_mine_hour THEN bp_challenge.no_pre_mine_hour ELSE <<>> >>

\* the number of characters before part k
RECURSIVE Offset(_)
Offset(k) == IF k = 1 THEN 0 ELSE Offset(k - 1) + Len(Parts[k - 1])

\* C18: the preimage holds, from its first character on and with nothing in
\* between or after, the nonce, the address, the challenge id, the difficulty,
\* no_pre_mine, latest_submission and no_pre_mine_hour (nothing when the key
\* is absent): it is determined by the arguments; the bytes sent to the oracle
\* are no_pre_mine, "|", the preimage and a newline.
C18_PreimageOrderAndOracleLine ==
    /\ bp_pc \in {"built", "sent"}
          => /\ Len(bp_pre) = Offset(8)
             /\ \A k \in 1 .. 7 :
                   SubSeq(bp_pre, Offset(k) + 1, Offset(k) + Len(Parts[k])) = Parts[k]
    /\ bp_pc = "sent"
          => LET n == Len(bp_challenge.no_pre_mine) IN
             /\ Len(bp_line) = n + Len(bp_pre) + 2
             /\ SubSeq(bp_line, 1, n) = bp_challenge.no_pre_mine
             /\ bp_line[n + 1] = Bar
             /\ SubSeq(bp_line, n + 2, Len(bp_line) - 1) = bp_pre
             /\ bp_line[Len(bp_line)] = Newline

C18_Witness ==
    /\ bp_pc = "sent"
    /\ ~bp_challenge.has_no_pre_mine_hour
    /\ bp_challenge.difficulty = Mask
    /\ Len(bp_challenge.challenge_id) = 2
    /\ Len(bp_pre) = Len(bp_nonce) + Len(bp_address) + 2 + 8
                      + Len(bp_challenge.no_pre_mine) + 2

\* the setting of C19 and C20's counters
OneHashOneSolution == stats.hashes = 1 /\ stats.solutions = 1

\* a pool of one worker that submits its finds, the difficulty "00000000" on a
\* complete row, and an oracle whose every line is the all-zero hash
ZeroScenario ==
    /\ args_workers = 1
    /\ submit_on_find
    /\ daemon_lines = {ZeroLine}
    /\ current_challenge # 0
    /\ challenges[current_challenge] = [CompleteRow EXCEPT !.difficulty = ZeroMask]

\* C19: in that setting the first line the worker counts is a find; when its
\* first POST returns 201 that is the only POST, stop_event is set, one hash
\* and one solution are counted; from there the worker returns from run and
\* the iteration ends with one hash and one solution counted.
C19_ZeroMaskEndToEnd ==
    /\ [](ZeroScenario =>
            /\ (pc[0] = "count" => stats.hashes = 0 /\ stats.solutions = 0)
            /\ (pc[0] = "found" => stats.hashes = 1 /\ stats.solutions = 0)
            /\ (posted[0] = <<Accepted>>
                   => stop_event /\ pc[0] = "loop" /\ OneHashOneSolution)
            /\ (mpc = "advance" => pc[0] = "done" /\ OneHashOneSolution))
    /\ [][(ZeroScenario /\ pc[0] = "count" /\ pc'[0] # "count") => pc'[0] = "found"]_vars
    /\ [][(ZeroScenario /\ posted[0] = <<Accepted>>)
            => posted'[0] \in {<<Accepted>>, <<>>}]_vars
    /\ ((ZeroScenario /\ posted[0] = <<Accepted>>)
           ~> (mpc = "advance" /\ pc[0] = "done" /\ stop_event /\ OneHashOneSolution))

C19_Witness ==
    /\ ZeroScenario
    /\ posted[0] = <<Accepted>>
    /\ stop_event
    /\ OneHashOneSolution

\* C20: without submission of the finds a find adds one to the solution
\* counter and takes the worker back to the head of its run loop, with
\* stop_event and the POSTs as they were; no POST is ever issued and stop_event
\* is never set, so the worker goes on to read the challenge and search.
C20_FindWithoutSubmission ==
    /\ [](~submit_on_find
            => /\ ~stop_event
               /\ \A w \in WorkerIds : posted[w] = <<>> /\ pc[w] \notin {"submit", "after"})
    /\ [][\A w \in WorkerIds :
            (~submit_on_find /\ pc[w] = "found" /\ pc'[w] # "found")
               => /\ stats'.solutions = stats.solutions + 1
                  /\ pc'[w] = "loop"
                  /\ stop_event' = stop_event
                  /\ posted' = posted]_vars
    /\ [][\A w \in WorkerIds :
            (~submit_on_find /\ pc[w] = "loop" /\ pc'[w] # "loop")
               => pc'[w] = "getch"]_vars

C20_Witness ==
    /\ ~submit_on_find
    /\ stats.solutions = 1
    /\ ~stop_event
    /\ pc[0] = "query"
    /\ posted[0] = <<>>

\* C24: a find is followed by at least one and at most three POSTs of its
\* nonce: the retry loop is entered with no POST made, it is left with one to
\* three made, a POST is only made inside it, and none is made once one has
\* returned 201.
C24_OneToThreePosts ==
    /\ [](\A w \in WorkerIds :
            /\ Len(posted[w]) <= 3
            /\ pc[w] = "found" => posted[w] = <<>>)
    /\ [][\A w \in WorkerIds :
            (pc[w] = "submit" /\ pc'[w] # "submit") => Len(posted'[w]) \in 1 .. 3]_vars
    /\ [][\A w \in WorkerIds :
            Len(posted'[w]) > Len(posted[w])
               => pc[w] = "submit" /\ NoneAccepted(posted[w])]_vars

C24_Witness ==
    \E w \in WorkerIds :
        /\ pc[w] = "loop"
        /\ Len(posted[w]) = 3
        /\ Last(posted[w]) = Accepted

\* the wall clock is past the deadline worker w parsed from its snapshot
PastDeadline(w) == latest_ts[w] # 0 /\ now > latest_ts[w]

\* C25: every query to the oracle is preceded, in the same turn of the for
\* loop, by a look at the clock that found the deadline of the snapshot not
\* passed; a worker that finds it passed leaves the batch for the head of its
\* run loop, without a query, and makes no query on that snapshot from then on.
C25_NoQueryPastDeadline ==
    /\ [][\A w \in WorkerIds :
            (pc'[w] = "query" /\ pc[w] # "query") => (pc[w] = "for" /\ ~PastDeadline(w))]_vars
    /\ [][\A w \in WorkerIds :
            (pc[w] = "for" /\ PastDeadline(w) /\ pc'[w] # "for")
               => (pc'[w] = "loop" /\ batch_i'[w] = 0 /\ oracle_lines' = oracle_lines)]_vars

C25_Witness ==
    \E w \in WorkerIds :
        /\ pc[w] = "for"
        /\ batch_i[w] < NONCE_BATCH
        /\ ~stop_event
        /\ PastDeadline(w)

\* the workers of the running pool
Pool == {workers[k] : k \in 1 .. Len(workers)}

\* C23: as long as the oracle has answered no line since the statistics were
\* reset, every worker of the running pool is still inside its run loop
\* (neither returned nor raised), stats.hashes is 0, no POST has been made and
\* stop_event is not set.
C23_OracleDownKeepsPoolRunning ==
    (answered = 0 /\ mpc \in {"start_workers", "wait"})
       => /\ stats.hashes = 0
          /\ ~stop_event
          /\ \A w \in Pool :
                /\ pc[w] \in {"start", "loop", "getch", "for", "query"}
                /\ posted[w] = <<>>

\* a line that is empty or not hexadecimal text
UnexpectedShape(line) == line = <<>> \/ ~IsHex(line)

\* C26: a line of unexpected shape (empty, or not hexadecimal) read from the
\* oracle is a failed query: the worker's socket is dropped and the line adds
\* nothing to stats.hashes.
C26_UnexpectedShapeIsTransient ==
    /\ [](\A w \in WorkerIds :
            (pc[w] = "count" /\ UnexpectedShape(hash_hex[w])) => ~sock[w])
    /\ [][\A w \in WorkerIds :
            (pc[w] = "count" /\ pc'[w] # "count" /\ UnexpectedShape(hash_hex[w]))
               => stats'.hashes = stats.hashes]_vars

\* C27: a worker whose run has returned holds no open socket.
C27_StoppedWorkerHoldsNoSocket ==
    \A w \in WorkerIds : pc[w] = "done" => ~sock[w]

\* the call of worker w that returned last failed / returned a line
Failed(w) == client[w].ret.call > 0 /\ client[w].ret.err # "none"
GotLine(w) == client[w].ret.call > 0 /\ client[w].ret.err = "none"

\* C21: a connection is used by the worker that made it and by no other; on
\* it at most one request is without its line, namely while its owner is
\* reading, and a request is only sent when every earlier request on the
\* connection has had its line returned (a call that failed has closed the
\* connection); the daemon never holds two requests of one connection.
C21_OneQueryInFlight ==
    /\ [](\A w, v \in OracleClients :
            client[w].sock # 0
               => /\ client[w].sock \in 1 .. Len(conns)
                  /\ conns[client[w].sock].owner = w
                  /\ ~conns[client[w].sock].closed
                  /\ (v # w => client[v].sock # client[w].sock))
    /\ [](\A c \in 1 .. Len(conns) :
            /\ Len(conns[c].reqs) <= 1
            /\ \A k \in 1 .. Len(conns[c].reqs) : conns[c].reqs[k][1] = conns[c].owner
            /\ ~conns[c].closed
                  => conns[c].sent - conns[c].got =
                        IF client[conns[c].owner].pc = "recv"
                           /\ client[conns[c].owner].sock = c
                        THEN 1 ELSE 0)
    /\ [][\A c \in 1 .. Len(conns) :
            conns'[c].sent > conns[c].sent => conns[c].sent = conns[c].got]_vars

C21_Witness ==
    \E w, v \in OracleClients :
        /\ w # v
        /\ client[w].sock # 0
        /\ client[v].sock # 0
        /\ client[w].pc = "recv"
        /\ conns[client[w].sock].got = 1
        /\ conns[client[w].sock].sent = 2

\* C22: a call that failed (no connection, sendall or recv raised, recv
\* returned nothing) returned None and left Worker.sock None; a worker without
\* a socket gets one only by a connection made then, and sends and reads only
\* on a connection that is not closed; a line a call returns is the answer to
\* that call's own request, never to an earlier one.
C22_FailureDropsConnection ==
    /\ [](\A w \in OracleClients :
            /\ (client[w].pc = "idle" /\ Failed(w))
                  => (client[w].sock = 0 /\ client[w].ret.line = <<>>)
            /\ client[w].pc \in {"send", "recv"}
                  => (client[w].sock # 0 /\ ~conns[client[w].sock].closed)
            /\ GotLine(w) => client[w].ret.line = HashOf(w, client[w].ret.call))
    /\ [][\A w \in OracleClients :
            (client[w].sock = 0 /\ client'[w].sock # 0)
               => /\ Len(conns') = Len(conns) + 1
                  /\ client'[w].sock = Len(conns')
                  /\ conns'[Len(conns')] = NewConn(w)]_vars
    /\ [][\A w \in OracleClients :
            (client'[w].ret # client[w].ret /\ client'[w].ret.err # "none")
               => (client'[w].sock = 0 /\ client'[w].pc = "idle")]_vars

C22_Witness ==
    \E w \in OracleClients :
        /\ GotLine(w)
        /\ client[w].ret.call = 2
        /\ client[w].sock = 2
        /\ conns[1].owner = w
        /\ conns[1].closed
        /\ conns[1].sent = 1

\* the response the daemon wrote to the request of the call of worker w that
\* returned last
ResponseTo(w) == conns[client[w].sock].last

\* C28 as stated: the line a call returns is the bytes of the response before
\* its first newline, however recv cut the response into chunks.
C28_LineIsBytesBeforeNewline ==
    \A w \in OracleClients :
        (GotLine(w) /\ client[w].pc # "recv")
           => client[w].ret.line = BeforeNewline(ResponseTo(w))

\* C28: the line a call returns is the bytes of the response before its first
\* newline with the blanks at both ends removed, however recv cut the response
\* into chunks.
C28_LineIsStrippedBytesBeforeNewline ==
    \A w \in OracleClients :
        (GotLine(w) /\ client[w].pc # "recv")
           => client[w].ret.line = strip(BeforeNewline(ResponseTo(w)))

C28_Witness ==
    \E w \in OracleClients :
        /\ GotLine(w)
        /\ client[w].pc = "idle"
        /\ client[w].reads >= 2
        /\ Len(ResponseTo(w)) = 5
        /\ client[w].ret.line = HashOf(w, client[w].ret.call)

\* what was added to the start of the range of worker k (from 1)
OffsetOf(k) == fa_ranges[k].start_nonce - (k - 1) * (TOTAL_NONCE_SPACE \div fa_workers_count)

\* C30: the offset added to the start of every worker's range is at least 0
\* and at most (TOTAL_NONCE_SPACE div N) div 100, so that a hundred times the
\* offset does not exceed the chunk size.
C30_OffsetAtMostOnePercent ==
    \A k \in 1 .. Len(fa_ranges) :
        /\ OffsetOf(k) >= 0
        /\ OffsetOf(k) <= (TOTAL_NONCE_SPACE \div fa_workers_count) \div 100
        /\ 100 * OffsetOf(k) <= TOTAL_NONCE_SPACE \div fa_workers_count

C30_Witness ==
    /\ fa_pc = "started"
    /\ fa_workers_count > 1
    /\ \E k \in 1 .. Len(fa_ranges) :
          /\ OffsetOf(k) > 0
          /\ OffsetOf(k) = (TOTAL_NONCE_SPACE \div fa_workers_count) \div 100
    /\ \E k \in 1 .. Len(fa_ranges) : OffsetOf(k) = 0

\* C29: once refresh_challenge has installed a challenge with another id, a
\* worker in the middle of a batch makes at most NONCE_BATCH more attempts on
\* the challenge it holds, and what it holds after its next read of
\* current_challenge is the installed one, with no attempt on the old one left.
C29_StaleAtMostOneBatch ==
    /\ [](pw.stale <= NONCE_BATCH)
    /\ [][pw.pc = "getch" /\ pw'.pc = "for"
            => pw'.challenge = pm_current.id /\ pw'.stale = 0]_vars

C29_Witness ==
    /\ pw.pc = "loop"
    /\ pw.stale = NONCE_BATCH
    /\ pm_current # NoChallenge
    /\ pw.challenge \notin {0, pm_current.id}

\* C31: one call of Orchestrator.run of fullauto&workerrandom.py calls
\* start_workers once and makes workers_count workers, no more.
C31_PoolStartedOnce ==
    /\ fa_run.calls <= 1
    /\ Len(fa_ranges) <= fa_workers_count

\* C32: over all the threads that enter _fetch_and_save_challenge in one
\* process, safe_get_challenge is called at most once: two threads are never
\* both past the test made under the lock, and once challenge_fetched is set
\* no thread gets past it.
C32_AtMostOneGet ==
    /\ cf.gets <= 1
    /\ Cardinality({w \in WorkerIds : cf.pc[w] \in {"get", "finally"}}) <= 1
    /\ cf.challenge_fetched
          => cf.gets = 1 /\ \A w \in WorkerIds : cf.pc[w] \notin {"get", "finally"}

\* the one GET failed, and every later call returned without a GET
C32_Witness ==
    /\ cf.gets = 1
    /\ cf.last = "failed"
    /\ cf.challenge_fetched
    /\ cf.entries = MaxEntries
    /\ \A w \in WorkerIds : cf.pc[w] = "idle"

\* C33: a worker goes on to an oracle query only from a test of stop_event
\* that found it unset, and stop_event is cleared only when no worker of the
\* pool is running; so once stop_event is set a worker makes at most the query
\* it was already about to make, and none after it has seen stop_event set.
C33_NoQueryEnteredAfterStop ==
    /\ [][\A w \in WorkerIds : pc[w] # "query" /\ pc'[w] = "query" => ~stop_event]_vars
    /\ [][stop_event /\ ~stop_event'
             => \A w \in WorkerIds : pc[w] \in {"unborn", "done", "crashed"}]_vars

\* stop_event has been set by a worker that posted, while another worker is
\* past the test and about to query
C33_Witness ==
    /\ stop_event
    /\ \E v, w \in WorkerIds :
          /\ v # w
          /\ posted[v] # <<>>
          /\ pc[v] \in {"loop", "done"}
          /\ pc[w] = "query"

\* C34: with submit_on_find, a worker records a find only when it has recorded
\* none before in its run, every find ends with stop_event set, and a worker
\* that meets stop_event set at the head of its while loop returns; so
\* stats.solutions never exceeds the size of the pool.
C34_OneFindPerWorker ==
    /\ [](stats.solutions <= args_workers)
    /\ [][\A w \in WorkerIds :
            pc[w] = "found" /\ pc'[w] # "found" => posted[w] = <<>>]_vars
    /\ [][\A w \in WorkerIds :
            pc[w] \in {"submit", "after"} /\ pc'[w] = "loop" => stop_event']_vars
    /\ [][\A w \in WorkerIds :
            pc[w] = "loop" /\ stop_event /\ pc'[w] # "loop" => pc'[w] = "done"]_vars

\* two workers of one pool have each recorded a find and posted it for the
\* same address and challenge
C34_Witness ==
    /\ stats.solutions = 2
    /\ \E v, w \in WorkerIds :
          /\ v # w
          /\ posted[v] # <<>>
          /\ posted[w] # <<>>
          /\ challenge[v] = challenge[w]

\* C35: stop_event goes from unset to set only in a step of a worker that has
\* recorded a find and has finished its retry loop (its last POST returned 201,
\* or it has posted MaxAttempts times); and whenever stop_event is set,
\* stats.solutions is at least 1.
C35_StopOnlyAfterFindAndPost ==
    /\ [](stop_event => stats.solutions >= 1)
    /\ [][~stop_event /\ stop_event'
            => \E w \in WorkerIds :
                  /\ pc[w] \in {"submit", "after"}
                  /\ pc'[w] = "loop"
                  /\ posted'[w] # <<>>
                  /\ \/ posted'[w][Len(posted'[w])] = Accepted
                     \/ Len(posted'[w]) = MaxAttempts]_vars

\* both ways: stop_event set on a 201, and set after MaxAttempts refusals
C35_Witness ==
    /\ stop_event
    /\ stats.solutions >= 1
    /\ \E v, w \in WorkerIds :
          /\ pc[v] = "loop"
          /\ posted[v] # <<>>
          /\ posted[v][Len(posted[v])] = Accepted
          /\ pc[w] = "loop"
          /\ Len(posted[w]) = MaxAttempts
          /\ posted[w][MaxAttempts] # Accepted

\* C36: the arguments of every POST are the worker's own address and the
\* challenge id and nonce that went into the preimage whose hash met the
\* difficulty, the id being that of the snapshot the preimage was built from,
\* whatever set_challenge has installed since.
C36_PostMatchesVerifiedPreimage ==
    sb.post # NoPost
       => /\ sb.post.address = sb.address
          /\ sb.post.challenge_id = sb.verified_on.challenge_id
          /\ sb.verified =
                sb.post.nonce \o sb.post.address \o sb.post.challenge_id
                   \o sb.verified_on.difficulty \o sb.verified_on.no_pre_mine
                   \o sb.verified_on.latest_submission \o sb.verified_on.no_pre_mine_hour

\* a POST made after current_challenge was replaced by a challenge with another id
C36_Witness ==
    /\ sb.post # NoPost
    /\ sb.current.challenge_id # sb.post.challenge_id

\* C37: for every worker count from 1 to the size of the nonce space and
\* every choice of the random offsets, the ranges start_workers hands out are
\* pairwise disjoint, each holds at least one nonce, and range i starts at or
\* after i times the chunk size.
C37_RangesDisjointNonEmpty ==
    fa_pc = "started"
       => /\ \A k \in 1 .. Len(fa_ranges) :
                /\ fa_ranges[k].start_nonce < fa_ranges[k].end_nonce
                /\ fa_ranges[k].start_nonce
                      >= (k - 1) * (TOTAL_NONCE_SPACE \div fa_workers_count)
          /\ \A j, k \in 1 .. Len(fa_ranges) :
                j < k => \/ fa_ranges[j].end_nonce <= fa_ranges[k].start_nonce
                         \/ fa_ranges[k].end_nonce <= fa_ranges[j].start_nonce

\* as many workers as nonces: every range holds one nonce
C37_Witness ==
    /\ fa_pc = "started"
    /\ fa_workers_count = TOTAL_NONCE_SPACE
    /\ Len(fa_ranges) = TOTAL_NONCE_SPACE

\* C38: a single-attempt worker posts each find once; stop_event is set
\* exactly when the POST of some find returned 201; a POST that did not return
\* 201 leaves stop_event as it was and the worker back at the head of its
\* loop, from where it opens a new batch as long as stop_event is unset.
C38_OnePostStopIffAccepted ==
    /\ [](\A w \in WorkerIds :
             /\ ow.pc[w] = "post" => ow.posts[w] = <<>>
             /\ (ow.finds[w] >= 1 /\ ow.pc[w] # "post") => Len(ow.posts[w]) = 1)
    /\ [](ow.stop_event
             <=> \E w \in WorkerIds : ow.posts[w] # <<>> /\ ow.posts[w][1] = Accepted)
    /\ [][\A w \in WorkerIds :
            ow.pc[w] = "post" /\ ow'.pc[w] # "post" /\ ow'.posts[w][1] # Accepted
               => ow'.pc[w] = "loop" /\ ow'.stop_event = ow.stop_event]_vars
    /\ [][\A w \in WorkerIds :
            ow.pc[w] = "loop" /\ ~ow.stop_event => ow'.pc[w] \in {"loop", "getch"}]_vars

\* a second find by a worker whose first POST did not return 201, stop_event unset
C38_Witness ==
    \E w \in WorkerIds :
        /\ ow.finds[w] = 2
        /\ ow.pc[w] = "post"
        /\ ~ow.stop_event

\* C39: under the fair scheduling, once a worker holds a hash that meets the
\* difficulty, stop_event gets set, every worker of the pool returns, the pool
\* is joined and Orchestrator.run returns to main, whatever the POSTs return.
C39_FindEndsIteration ==
    (\E w \in WorkerIds : pc[w] = "found")
        ~> (mpc = "advance" /\ stop_event /\ AllDone)

C39_Witness ==
    /\ mpc = "advance"
    /\ stop_event
    /\ AllDone
    /\ stats.solutions >= 1
    /\ oracle_lines >= 1
====
